---- MODULE Spec2Model ----
(***************************************************************************)
(* State-machine model of the linkd dependency-injection core:             *)
(* Registry (registry.py), Container (container.py) and the condition /    *)
(* DependencyExpression algebra (conditions.py).  The dependency graph     *)
(* module (linkd/graph.py) is modelled from the specification, sections    *)
(* 3, 4.1 and 4.2.                                                         *)
(***************************************************************************)
EXTENDS Integers, Sequences, FiniteSets, TLC

(* ------------------------------ bounds --------------------------------- *)
MaxContainers == 3
MaxHier == 2
MaxTasks == 2
MaxScopes == 3
MaxCalls == 1
MaxRegs == 3
MaxAdds == 1
MaxGets == 2
MaxObjs == 2

(* ------------------------------ domains -------------------------------- *)
Containers == 1..MaxContainers
NoContainer == 0
\* solver._NOOP_CONTAINER, the one container handed out while injection is disabled
NoOpContainer == MaxContainers + 1
\* asyncio tasks, each with its own value of the DI_CONTAINER context variable
Tasks == 1..MaxTasks
Registries == {"R1", "R2"}
UserIds == {"A", "B"}
ContainerId == "Container"
RootContainerId == "RootContainer"
ManagerId == "DependencyInjectionManager"
Ids == UserIds \cup {ContainerId, RootContainerId, ManagerId}

\* injection contexts; NoTag is "tag=None"
ROOT == "linkd.contexts.default"
REQUEST == "request"
Tags == {ROOT, REQUEST}
NoTag == ""

(* ------------------------------ values --------------------------------- *)
\* Python values, compared by identity: None, values handed in by the caller,
\* objects returned by a factory invocation, container handles.
NoneVal == [k |-> "None", f |-> "", n |-> 0]
Absent == [k |-> "absent", f |-> "", n |-> 0]
UserVal(i) == [k |-> "val", f |-> "", n |-> i]
ObjVal(fname, i) == [k |-> "obj", f |-> fname, n |-> i]
ContainerVal(c) == [k |-> "container", f |-> "", n |-> c]
ManagerVal == [k |-> "manager", f |-> "", n |-> 0]
RegVals == {UserVal(1)}
AddVals == {UserVal(2), NoneVal}

(* ---------------------------- expressions ------------------------------ *)
\* DependencyExpression: (_required, _order); _hash is a function of exactly
\* these, so the expression itself is the expression-cache key.
Cond(kind, id) == [kind |-> kind, id |-> id]
Expr(required, order) == [required |-> required, order |-> order]
Req(id) == Expr(TRUE, <<Cond("If", id)>>)
OptIf(id) == Expr(FALSE, <<Cond("If", id)>>)
OptTry(id) == Expr(FALSE, <<Cond("Try", id)>>)
\* two conditions in declared order, e.g. "If[A] | Try[B]" and "Try[A] | If[B] | None"
Either(required, k1, id1, k2, id2) == Expr(required, <<Cond(k1, id1), Cond(k2, id2)>>)
ExprIds(e) == {e.order[i].id : i \in 1..Len(e.order)}

(* ------------------------- dependency data ----------------------------- *)
\* A teardown callback is identified by the factory it was registered with.
NoTd == ""
Teardown(fname, withTd) == IF withTd THEN fname ELSE NoTd

\* Factories the callers hand in: name, parameter expressions in signature
\* order, and what an invocation does.
Factory(name, params, ret, val) == [name |-> name, params |-> params, ret |-> ret, val |-> val]
fNew == Factory("fNew", <<>>, "fresh", Absent)
fNone == Factory("fNone", <<>>, "none", Absent)
fRaise == Factory("fRaise", <<>>, "raise", Absent)
fDep(id) == Factory(IF id = "A" THEN "fDepA" ELSE "fDepB", <<Req(id)>>, "fresh", Absent)
\* an "async def" factory whose coroutine suspends before it returns its object
fAsync == Factory("fAsync", <<>>, "fresh", Absent)
\* a factory with two parameters: B, then the manager, which a container made
\* without a manager does not provide
fBoth == Factory("fBoth", <<Req("B"), Req(ManagerId)>>, "fresh", Absent)
\* a factory registered together with a teardown function that raises
fBadTd == Factory("fBadTd", <<>>, "fresh", Absent)
lambda_value_rebuilt(v) == Factory("lambda_value", <<>>, "fresh", v)
lambda_value(v) == Factory("lambda_value", <<>>, "const", v)
lambda_None == Factory("lambda_None", <<>>, "none", Absent)
Factories == {fNew, fNone, fRaise} \cup {fDep(id) : id \in UserIds}

\* DependencyData(factory_method, factory_params, teardown_method); a node may
\* also be present with no data (a placeholder for a required dependency).
DependencyData(fac, td) == [kind |-> "data", fac |-> fac, td |-> td]
NoData == [kind |-> "placeholder", fac |-> lambda_None, td |-> NoTd]
NoNode == [kind |-> "absent", fac |-> lambda_None, td |-> NoTd]
HasData(node) == node.kind = "data"

(* ------------------------------- state --------------------------------- *)
VARIABLES
  reg_nodes,            \* Registry._graph: node id -> DependencyData / placeholder / absent
  reg_adj,              \* Registry._graph: node id -> ids it requires
  active_containers,    \* Registry._active_containers
  created,              \* which Container objects have been constructed
  closed,               \* Container._closed
  registry,             \* Container._registry
  parent,               \* Container._parent (NoContainer for None)
  nodes,                \* Container._graph nodes
  adj,                  \* Container._graph edges
  instances,            \* Container._instances, an insertion-ordered dict
  expression_cache,     \* Container._expression_cache
  on_change_listeners,  \* Container._on_change_listeners (by owning child)
  serial,               \* number of objects factories have created so far
  nregs,                \* number of registration calls made so far
  nadds,                \* number of add_value / add_factory calls made so far
  ngets,                \* number of get / resolve calls made so far
  constructed,          \* history: what each container's factories returned, in creation order
  last,                 \* the last call made and what it did
  tag,                  \* Container._tag
  ambient,              \* the DI_CONTAINER context variable of the running task
  default_container,    \* DependencyInjectionManager._default_container
  scopes,               \* the enter_context calls that have yielded and not yet exited, innermost last
  di_enabled,           \* solver.DI_ENABLED
  noop,                 \* what _NOOP_CONTAINER stores: its instances, graph nodes and cache entries
  pending               \* per task: the get(T) call suspended in "await factory_method(...)", if any

vars == <<reg_nodes, reg_adj, active_containers, created, closed, registry, parent,
          nodes, adj, instances, expression_cache, on_change_listeners, serial,
          nregs, nadds, ngets, constructed, last,
          tag, ambient, default_container, scopes, di_enabled, pending, noop>>

\* the state of the manager and of the running task's scopes
scopeVars == <<ambient, default_container, scopes, di_enabled, pending, noop>>
mgrVars == <<tag, ambient, default_container, scopes, di_enabled, pending, noop>>


(* ------------------------- insertion-ordered dict ---------------------- *)
DictKeys(d) == {d[i].k : i \in 1..Len(d)}
DictGet(d, key) ==
  IF key \in DictKeys(d)
    THEN (CHOOSE i \in 1..Len(d) : d[i].k = key) \* keys are unique
    ELSE 0
DictValue(d, key) == IF DictGet(d, key) = 0 THEN Absent ELSE d[DictGet(d, key)].v
\* d[key] = value: an existing key keeps its position, a new key goes last
DictSet(d, key, value) ==
  IF DictGet(d, key) = 0
    THEN Append(d, [k |-> key, v |-> value])
    ELSE [d EXCEPT ![DictGet(d, key)] = [k |-> key, v |-> value]]

(* ---------------------------- DiGraph ---------------------------------- *)
RECURSIVE Reach(_, _, _)
Reach(adjf, frontier, seen) ==
  IF frontier = {} THEN seen
  ELSE LET next == UNION {adjf[i] : i \in frontier}
       IN Reach(adjf, next \ seen, seen \cup next)

\* DiGraph.children: everything id requires, directly or transitively
children(adjf, id) == Reach(adjf, {id}, {})

\* the loop "for edge in out_edges(id): remove_edge(*edge)"
strip_out_edges(adjf, id) == [adjf EXCEPT ![id] = {}]

\* DiGraph.add_node with data: (re)writes the node, dropping prior outgoing edges
add_node(g, id, data) ==
  [nodes |-> [g.nodes EXCEPT ![id] = data], adj |-> [g.adj EXCEPT ![id] = {}]]

RECURSIVE add_edges(_, _, _)
add_edges(g, id, deps) ==
  IF deps = {} THEN g
  ELSE LET d == CHOOSE x \in deps : TRUE
           n1 == IF g.nodes[d].kind = "absent" THEN [g.nodes EXCEPT ![d] = NoData] ELSE g.nodes
       IN add_edges([nodes |-> n1, adj |-> [g.adj EXCEPT ![id] = @ \cup {d}]], id, deps \ {d})

FactoryDeps(fac) == UNION {ExprIds(fac.params[i]) : i \in 1..Len(fac.params)}

\* populate_graph_for_dependency without the check for a factory that
\* requires its own target
populate_graph_unchecked(g, id, fac, td) ==
  [out |-> "ok", g |-> add_edges(add_node(g, id, DependencyData(fac, td)), id, FactoryDeps(fac))]

\* graph.populate_graph_for_dependency: rejects a factory whose own parameters
\* name its target; on success writes the node and its outgoing edges.
populate_graph_for_dependency(g, id, fac, td) ==
  IF id \in FactoryDeps(fac)
    THEN [out |-> "Circular", g |-> g]
    ELSE [out |-> "ok", g |-> add_edges(add_node(g, id, DependencyData(fac, td)), id, FactoryDeps(fac))]

(* ---------------------------- Registry --------------------------------- *)
Graph(nf, af) == [nodes |-> nf, adj |-> af]

\* Registry._freeze: self._active_containers.add(cnt)
freeze(r, c) == [active_containers EXCEPT ![r] = @ \cup {c}]

\* Registry._unfreeze clearing a frozen flag instead of removing one container
unfreeze_all(r, c) == [active_containers EXCEPT ![r] = {}]

\* Registry._unfreeze: self._active_containers.remove(cnt), for a cnt in the set
unfreeze(r, c) == [active_containers EXCEPT ![r] = @ \ {c}]

\* Registry.register_factory without the RegistryFrozenException check
register_factory_unguarded(r, id, fac, td) ==
  LET stripped == IF reg_nodes[r][id].kind # "absent"
                    THEN strip_out_edges(reg_adj[r], id)
                    ELSE reg_adj[r]
  IN populate_graph_for_dependency(Graph(reg_nodes[r], stripped), id, fac, td)

\* Registry.register_factory as a function of the registry's state
register_factory(r, id, fac, td) ==
  IF active_containers[r] # {}
    THEN [out |-> "RegistryFrozen", g |-> Graph(reg_nodes[r], reg_adj[r])]
    ELSE LET stripped == IF reg_nodes[r][id].kind # "absent"
                           THEN strip_out_edges(reg_adj[r], id)
                           ELSE reg_adj[r]
         IN populate_graph_for_dependency(Graph(reg_nodes[r], stripped), id, fac, td)

\* no call of the task is suspended
NoPending == [c |-> NoContainer, id |-> "", calls |-> <<>>, facs |-> <<>>, pos |-> 0, size |-> 0]

NoLast == [op |-> "none", c |-> NoContainer, r |-> "", id |-> "", e |-> Req("A"),
           f |-> "", deps |-> {}, out |-> "ok", val |-> Absent, calls |-> <<>>, tds |-> <<>>,
           t |-> 0, ctx |-> NoTag, how |-> "", fn |-> "", self |-> "none", nargs |-> 0,
           kw |-> {}, inj |-> {}, invoked |-> FALSE, got |-> <<>>]

RegisterFactory(r, id, fac, withTd) ==
  /\ UNCHANGED mgrVars
  /\ LET res == register_factory(r, id, fac, Teardown(fac.name, withTd))
     IN /\ reg_nodes' = [reg_nodes EXCEPT ![r] = res.g.nodes]
        /\ reg_adj' = [reg_adj EXCEPT ![r] = res.g.adj]
        /\ last' = [NoLast EXCEPT !.op = "register_factory", !.r = r, !.id = id,
                                  !.f = fac.name, !.deps = FactoryDeps(fac), !.out = res.out]
  /\ nregs' = IF active_containers[r] = {} THEN nregs + 1 ELSE nregs
  /\ UNCHANGED <<active_containers, created, closed, registry, parent, nodes, adj, instances,
                 expression_cache, on_change_listeners, serial, nadds, ngets, constructed>>

\* Registry.register_value: register_factory(typ, lambda: value, teardown=teardown)
RegisterValue(r, id, v, withTd) ==
  /\ UNCHANGED mgrVars
  /\ LET res == register_factory(r, id, lambda_value(v), Teardown("lambda_value", withTd))
     IN /\ reg_nodes' = [reg_nodes EXCEPT ![r] = res.g.nodes]
        /\ reg_adj' = [reg_adj EXCEPT ![r] = res.g.adj]
        /\ last' = [NoLast EXCEPT !.op = "register_value", !.r = r, !.id = id, !.val = v, !.out = res.out]
  /\ nregs' = IF active_containers[r] = {} THEN nregs + 1 ELSE nregs
  /\ UNCHANGED <<active_containers, created, closed, registry, parent, nodes, adj, instances,
                 expression_cache, on_change_listeners, serial, nadds, ngets, constructed>>

(* ---------------------------- resolution ------------------------------ *)
\* The mutable state one resolution call threads through its nested calls,
\* with the outcome of the innermost call that has returned so far.
\* __cause__ of the exception a call ended with: none, the exception the
\* factory raised, or the DependencyNotSatisfiableException that was re-raised
NoCause == ""
FactoryError == "FactoryError"

Heap(inst, cache, ser) ==
  [inst |-> inst, cache |-> cache, serial |-> ser, calls |-> <<>>,
   out |-> "ok", val |-> Absent, args |-> <<>>, succ |-> FALSE, cause |-> NoCause]
Here == Heap(instances, expression_cache, serial)

Raise(h, exc) == [h EXCEPT !.out = exc, !.val = Absent, !.cause = NoCause]
\* raise exc from cause
RaiseFrom(h, exc, cause) == [h EXCEPT !.out = exc, !.val = Absent, !.cause = cause]
Return(h, v) == [h EXCEPT !.out = "ok", !.val = v, !.cause = NoCause]

\* a resolution never nests deeper than one frame per (container, id) pair
\* whose factory has parameters, unless it recurses forever
MaxDepth == MaxContainers * Cardinality(UserIds) + 1

CacheKeys(cache) == {x.e : x \in cache}
CacheValue(cache, e) == (CHOOSE x \in cache : x.e = e).v
CacheSet(cache, e, v) == {x \in cache : x.e # e} \cup {[e |-> e, v |-> v]}

\* Container.__contains__
RECURSIVE Contains(_, _, _)
Contains(inst, c, id) ==
  \/ id \in DictKeys(inst[c])
  \/ HasData(nodes[c][id])
  \/ (parent[c] # NoContainer /\ Contains(inst, parent[c], id))

\* the factory call of _get with the assignment to self._instances made
\* before the outcome of the factory is known
invoke_factory_storing_failure(h, c, id, fac, args) ==
  LET made == CASE fac.ret = "fresh" -> ObjVal(fac.name, h.serial + 1)
                [] fac.ret = "const" -> fac.val
                [] fac.ret = "raise" -> Absent
                [] OTHER -> NoneVal
      h1 == [h EXCEPT !.calls = Append(@, [c |-> c, id |-> id, f |-> fac.name, args |-> args,
                                           v |-> made, td |-> nodes[c][id].td])]
  IN IF fac.ret = "raise"
       THEN RaiseFrom([h1 EXCEPT !.inst[c] = DictSet(@, id, ObjVal(fac.name, 0))], "NotSat", FactoryError)
       ELSE Return([h1 EXCEPT !.inst[c] = DictSet(@, id, made),
                              !.serial = IF fac.ret = "fresh" THEN @ + 1 ELSE @], made)

\* "self._instances[dependency_id] = await maybe_await(data.factory_method(**params))"
\* inside "try ... except Exception"
invoke_factory(h, c, id, fac, args) ==
  LET made == CASE fac.ret = "fresh" -> ObjVal(fac.name, h.serial + 1)
                [] fac.ret = "const" -> fac.val
                [] fac.ret = "raise" -> Absent
                [] OTHER -> NoneVal
      h1 == [h EXCEPT !.calls = Append(@, [c |-> c, id |-> id, f |-> fac.name, args |-> args,
                                           v |-> made, td |-> nodes[c][id].td])]
  IN IF fac.ret = "raise"
       THEN RaiseFrom(h1, "NotSat", FactoryError)
       ELSE Return([h1 EXCEPT !.inst[c] = DictSet(@, id, made),
                              !.serial = IF fac.ret = "fresh" THEN @ + 1 ELSE @], made)

\* history of the factory invocations that returned a value, per container
Constructed(hist, calls) ==
  [c \in Containers |->
     hist[c] \o SelectSeq(calls, LAMBDA x : x.c = c /\ x.v # Absent)]

RECURSIVE C_get(_, _, _, _)
RECURSIVE resolve(_, _, _, _)
RECURSIVE resolve_params(_, _, _, _, _, _)
RECURSIVE resolve_conds(_, _, _, _, _)

\* Container._get with the parent chain consulted before the own graph
C_get_parent_first(h, c, id, fuel) ==
  IF fuel = 0 THEN Raise(h, "RecursionError")
  ELSE IF closed[c] THEN Raise(h, "ContainerClosed")
  ELSE IF DictValue(h.inst[c], id) \notin {Absent, NoneVal} THEN Return(h, DictValue(h.inst[c], id))
  ELSE IF parent[c] # NoContainer /\ Contains(h.inst, parent[c], id)
    THEN C_get(h, parent[c], id, fuel - 1)
  ELSE IF ~HasData(nodes[c][id]) THEN Raise(h, "NotSat")
  ELSE IF id \in children(adj[c], id) THEN Raise(h, "Circular")
  ELSE LET p == resolve_params(h, c, nodes[c][id].fac.params, 1, <<>>, fuel - 1)
       IN IF p.out = "NotSat" THEN RaiseFrom(p, "NotSat", "NotSat")
          ELSE IF p.out # "ok" THEN p
          ELSE invoke_factory(p, c, id, nodes[c][id].fac, p.args)

\* Container._get answering None where no container on the chain provides id
C_get_none_when_unknown(h, c, id, fuel) ==
  IF fuel = 0 THEN Raise(h, "RecursionError")
  ELSE IF closed[c] THEN Raise(h, "ContainerClosed")
  ELSE IF DictValue(h.inst[c], id) \notin {Absent, NoneVal} THEN Return(h, DictValue(h.inst[c], id))
  ELSE IF ~HasData(nodes[c][id])
    THEN IF parent[c] = NoContainer
           THEN Return(h, NoneVal)
           ELSE C_get(h, parent[c], id, fuel - 1)
  ELSE IF id \in children(adj[c], id) THEN Raise(h, "Circular")
  ELSE LET p == resolve_params(h, c, nodes[c][id].fac.params, 1, <<>>, fuel - 1)
       IN IF p.out = "NotSat" THEN RaiseFrom(p, "NotSat", "NotSat")
          ELSE IF p.out # "ok" THEN p
          ELSE invoke_factory(p, c, id, nodes[c][id].fac, p.args)

\* Container._get keeping its own copy of what the parent returned
C_get_copying(h, c, id, fuel) ==
  IF fuel = 0 THEN Raise(h, "RecursionError")
  ELSE IF closed[c] THEN Raise(h, "ContainerClosed")
  ELSE IF DictValue(h.inst[c], id) \notin {Absent, NoneVal} THEN Return(h, DictValue(h.inst[c], id))
  ELSE IF ~HasData(nodes[c][id])
    THEN IF parent[c] = NoContainer
           THEN Raise(h, "NotSat")
           ELSE LET g == C_get(h, parent[c], id, fuel - 1)
                IN IF g.out = "ok" THEN [g EXCEPT !.inst[c] = DictSet(@, id, g.val)] ELSE g
  ELSE IF id \in children(adj[c], id) THEN Raise(h, "Circular")
  ELSE LET p == resolve_params(h, c, nodes[c][id].fac.params, 1, <<>>, fuel - 1)
       IN IF p.out = "NotSat" THEN RaiseFrom(p, "NotSat", "NotSat")
          ELSE IF p.out # "ok" THEN p
          ELSE invoke_factory(p, c, id, nodes[c][id].fac, p.args)

\* Container._get running the parent's factory itself, with the parameters
\* resolved against the container that was asked
C_get_params_from_requester(h, c, id, fuel) ==
  IF fuel = 0 THEN Raise(h, "RecursionError")
  ELSE IF closed[c] THEN Raise(h, "ContainerClosed")
  ELSE IF DictValue(h.inst[c], id) \notin {Absent, NoneVal} THEN Return(h, DictValue(h.inst[c], id))
  ELSE IF ~HasData(nodes[c][id])
    THEN IF parent[c] = NoContainer
           THEN Raise(h, "NotSat")
           ELSE IF /\ HasData(nodes[parent[c]][id]) /\ ~closed[parent[c]]
                   /\ DictValue(h.inst[parent[c]], id) \in {Absent, NoneVal}
                   /\ id \notin children(adj[parent[c]], id)
                  THEN LET p == resolve_params(h, c, nodes[parent[c]][id].fac.params, 1, <<>>, fuel - 1)
                       IN IF p.out = "NotSat" THEN RaiseFrom(p, "NotSat", "NotSat")
                          ELSE IF p.out # "ok" THEN p
                          ELSE invoke_factory(p, parent[c], id, nodes[parent[c]][id].fac, p.args)
                  ELSE C_get(h, parent[c], id, fuel - 1)
  ELSE IF id \in children(adj[c], id) THEN Raise(h, "Circular")
  ELSE LET p == resolve_params(h, c, nodes[c][id].fac.params, 1, <<>>, fuel - 1)
       IN IF p.out = "NotSat" THEN RaiseFrom(p, "NotSat", "NotSat")
          ELSE IF p.out # "ok" THEN p
          ELSE invoke_factory(p, c, id, nodes[c][id].fac, p.args)

\* Container._get
C_get(h, c, id, fuel) ==
  IF fuel = 0 THEN Raise(h, "RecursionError")
  ELSE IF closed[c] THEN Raise(h, "ContainerClosed")
  ELSE IF DictValue(h.inst[c], id) \notin {Absent, NoneVal} THEN Return(h, DictValue(h.inst[c], id))
  ELSE IF ~HasData(nodes[c][id])
    THEN IF parent[c] = NoContainer
           THEN Raise(h, "NotSat")
           ELSE C_get(h, parent[c], id, fuel - 1)
  ELSE IF id \in children(adj[c], id) THEN Raise(h, "Circular")
  ELSE LET p == resolve_params(h, c, nodes[c][id].fac.params, 1, <<>>, fuel - 1)
       IN IF p.out = "NotSat" THEN RaiseFrom(p, "NotSat", "NotSat")
          ELSE IF p.out # "ok" THEN p
          ELSE invoke_factory(p, c, id, nodes[c][id].fac, p.args)

\* the parameter loop of _get passing None for a parameter that could not be
\* resolved
resolve_params_skipping_failed(h, c, params, i, args, fuel) ==
  IF i > Len(params) THEN [Return(h, Absent) EXCEPT !.args = args]
  ELSE LET r == resolve(h, c, params[i], fuel)
       IN IF r.out = "NotSat"
            THEN resolve_params(Return(r, NoneVal), c, params, i + 1, Append(args, NoneVal), fuel)
          ELSE IF r.out # "ok" THEN r
          ELSE resolve_params(r, c, params, i + 1, Append(args, r.val), fuel)

\* the loop over data.factory_params.items() in Container._get
resolve_params(h, c, params, i, args, fuel) ==
  IF i > Len(params) THEN [Return(h, Absent) EXCEPT !.args = args]
  ELSE LET r == resolve(h, c, params[i], fuel)
       IN IF r.out # "ok" THEN r
          ELSE resolve_params(r, c, params, i + 1, Append(args, r.val), fuel)

\* _Try._get_from without its "except DependencyInjectionException"
get_from_uncaught(h, c, cond, fuel) ==
  IF cond.kind = "If"
    THEN IF Contains(h.inst, c, cond.id)
           THEN [C_get(h, c, cond.id, fuel) EXCEPT !.succ = TRUE]
           ELSE [Return(h, NoneVal) EXCEPT !.succ = FALSE]
    ELSE [C_get(h, c, cond.id, fuel) EXCEPT !.succ = TRUE]

\* _If._get_from falling back when the factory of a known dependency fails,
\* as _Try._get_from does
get_from_if_falling_back(h, c, cond, fuel) ==
  IF cond.kind = "If" /\ ~Contains(h.inst, c, cond.id)
    THEN [Return(h, NoneVal) EXCEPT !.succ = FALSE]
    ELSE LET g == C_get(h, c, cond.id, fuel)
         IN IF g.out = "ok" THEN [g EXCEPT !.succ = TRUE]
            ELSE IF g.out \in {"ContainerClosed", "Circular", "NotSat"}
              THEN [Return(g, NoneVal) EXCEPT !.succ = FALSE]
            ELSE g

\* _If._get_from / _Try._get_from: sets succ, the first element of the pair
get_from(h, c, cond, fuel) ==
  IF cond.kind = "If"
    THEN IF Contains(h.inst, c, cond.id)
           THEN [C_get(h, c, cond.id, fuel) EXCEPT !.succ = TRUE]
           ELSE [Return(h, NoneVal) EXCEPT !.succ = FALSE]
    ELSE LET g == C_get(h, c, cond.id, fuel)
         IN IF g.out = "ok" THEN [g EXCEPT !.succ = TRUE]
            ELSE IF g.out \in {"ContainerClosed", "Circular", "NotSat"}
              THEN [Return(g, NoneVal) EXCEPT !.succ = FALSE]
            ELSE g

\* the loop of DependencyExpression.resolve run over reversed(self._order)
resolve_conds_reversed(h, c, e, i, fuel) ==
  IF i > Len(e.order)
    THEN IF ~e.required
           THEN Return([h EXCEPT !.cache[c] = CacheSet(@, e, NoneVal)], NoneVal)
           ELSE Raise(h, "NotSat")
    ELSE LET r == get_from(h, c, e.order[Len(e.order) + 1 - i], fuel)
         IN IF r.out # "ok" THEN r
            ELSE IF r.succ THEN Return([r EXCEPT !.cache[c] = CacheSet(@, e, r.val)], r.val)
            ELSE resolve_conds(r, c, e, i + 1, fuel)

\* the loop over self._order in DependencyExpression.resolve, and what follows it
resolve_conds(h, c, e, i, fuel) ==
  IF i > Len(e.order)
    THEN IF ~e.required
           THEN Return([h EXCEPT !.cache[c] = CacheSet(@, e, NoneVal)], NoneVal)
           ELSE Raise(h, "NotSat")
    ELSE LET r == get_from(h, c, e.order[i], fuel)
         IN IF r.out # "ok" THEN r
            ELSE IF r.succ THEN Return([r EXCEPT !.cache[c] = CacheSet(@, e, r.val)], r.val)
            ELSE resolve_conds(r, c, e, i + 1, fuel)

\* DependencyExpression.resolve on a container
resolve(h, c, e, fuel) ==
  IF c = NoContainer THEN Raise(h, "NotSat")  \* "no DI context is available"
  ELSE IF e \in CacheKeys(h.cache[c]) THEN Return(h, CacheValue(h.cache[c], e))
  ELSE IF e.required /\ Len(e.order) = 1
    THEN LET g == C_get(h, c, e.order[1].id, fuel)
         IN IF g.out = "ok" THEN Return([g EXCEPT !.cache[c] = CacheSet(@, e, g.val)], g.val)
            ELSE g
  ELSE resolve_conds(h, c, e, 1, fuel)

\* Container.get
Container_get(h, c, id) ==
  IF closed[c] THEN Raise(h, "ContainerClosed") ELSE resolve(h, c, Req(id), MaxDepth)

(* ---------------------------- Container ------------------------------- *)
\* Container._on_change: clears the cache of c and of every container reached
\* through the registered change listeners
on_change(cache, c) ==
  [x \in Containers |->
     IF x = c \/ x \in children(on_change_listeners, c) THEN {} ELSE cache[x]]

\* "self._instances[dependency_id] = value" on a dict all containers share
add_value_instances_shared(inst, c, id, v) == [x \in Containers |-> DictSet(inst[x], id, v)]

\* Container.add_value: "self._instances[dependency_id] = value"
add_value_instances(inst, c, id, v) == [inst EXCEPT ![c] = DictSet(@, id, v)]

\* the graph edits of Container.add_value
add_value_graph(g, id, td) ==
  add_node([g EXCEPT !.adj = IF g.nodes[id].kind # "absent" THEN strip_out_edges(g.adj, id) ELSE g.adj],
           id, DependencyData(lambda_None, td))

\* the graph edits of Container.add_factory
add_factory_graph(g, id, fac, td) ==
  populate_graph_for_dependency(
    [g EXCEPT !.adj = IF g.nodes[id].kind # "absent" THEN strip_out_edges(g.adj, id) ELSE g.adj],
    id, fac, td)

\* Container.__init__(registry, parent=p)
NewContainer(r, p) ==
  /\ \E c \in Containers :
       /\ ~created[c]
       /\ \A x \in Containers : x < c => created[x]
       /\ IF p = NoContainer THEN TRUE ELSE created[p]
       /\ LET g == add_value_graph(Graph(reg_nodes[r], reg_adj[r]), ContainerId, NoTd)
          IN /\ nodes' = [nodes EXCEPT ![c] = g.nodes]
             /\ adj' = [adj EXCEPT ![c] = g.adj]
       /\ active_containers' = freeze(r, c)
       /\ created' = [created EXCEPT ![c] = TRUE]
       /\ registry' = [registry EXCEPT ![c] = r]
       /\ parent' = [parent EXCEPT ![c] = p]
       /\ tag' = [tag EXCEPT ![c] = NoTag]
       /\ instances' = [instances EXCEPT ![c] = DictSet(<<>>, ContainerId, ContainerVal(c))]
       /\ on_change_listeners' =
            IF p # NoContainer THEN [on_change_listeners EXCEPT ![p] = @ \cup {c}]
            ELSE on_change_listeners
       /\ last' = [NoLast EXCEPT !.op = "new", !.c = c, !.r = r]
  /\ UNCHANGED <<reg_nodes, reg_adj, closed, expression_cache, serial, nregs, nadds, ngets, constructed>>
  /\ UNCHANGED scopeVars

\* Container.add_value(typ, value, teardown=...)
AddValue(c, id, v, withTd) ==
  /\ UNCHANGED mgrVars
  /\ created[c]
  /\ LET g == add_value_graph(Graph(nodes[c], adj[c]), id, Teardown("lambda_None", withTd))
     IN /\ nodes' = [nodes EXCEPT ![c] = g.nodes]
        /\ adj' = [adj EXCEPT ![c] = g.adj]
  /\ instances' = add_value_instances(instances, c, id, v)
  /\ expression_cache' = on_change(expression_cache, c)
  /\ nadds' = nadds + 1
  /\ last' = [NoLast EXCEPT !.op = "add_value", !.c = c, !.id = id, !.val = v]
  /\ UNCHANGED <<reg_nodes, reg_adj, active_containers, created, closed, registry, parent,
                 on_change_listeners, serial, nregs, ngets, constructed>>

\* Container.add_factory(typ, factory, teardown=...)
AddFactory(c, id, fac, withTd) ==
  /\ UNCHANGED mgrVars
  /\ created[c]
  /\ LET res == add_factory_graph(Graph(nodes[c], adj[c]), id, fac, Teardown(fac.name, withTd))
     IN /\ nodes' = [nodes EXCEPT ![c] = res.g.nodes]
        /\ adj' = [adj EXCEPT ![c] = res.g.adj]
        /\ expression_cache' = IF res.out = "ok" THEN on_change(expression_cache, c)
                               ELSE expression_cache
        /\ last' = [NoLast EXCEPT !.op = "add_factory", !.c = c, !.id = id,
                                  !.f = fac.name, !.deps = FactoryDeps(fac), !.out = res.out]
  /\ nadds' = nadds + 1
  /\ UNCHANGED <<reg_nodes, reg_adj, active_containers, created, closed, registry, parent,
                 instances, on_change_listeners, serial, nregs, ngets, constructed>>

\* await container.get(T)
Get(c, id) ==
  /\ UNCHANGED mgrVars
  /\ created[c]
  /\ LET h == Container_get(Here, c, id)
     IN /\ h.serial <= MaxObjs
        /\ instances' = h.inst
        /\ expression_cache' = h.cache
        /\ serial' = h.serial
        /\ constructed' = Constructed(constructed, h.calls)
        /\ last' = [NoLast EXCEPT !.op = "get", !.c = c, !.id = id, !.e = Req(id),
                                  !.out = h.out, !.val = h.val, !.calls = h.calls]
  /\ UNCHANGED <<reg_nodes, reg_adj, active_containers, created, closed, registry, parent,
                 nodes, adj, on_change_listeners, nregs, nadds>>
  /\ ngets' = ngets + 1


\* await expr.resolve(container), as the resolver generated for an injected
\* callable runs it against its ambient container
Resolve(c, e) ==
  /\ UNCHANGED mgrVars
  /\ created[c]
  /\ LET h == resolve(Here, c, e, MaxDepth)
     IN /\ h.serial <= MaxObjs
        /\ instances' = h.inst
        /\ expression_cache' = h.cache
        /\ serial' = h.serial
        /\ constructed' = Constructed(constructed, h.calls)
        /\ last' = [NoLast EXCEPT !.op = "resolve", !.c = c, !.e = e, !.id = e.order[1].id,
                                  !.out = h.out, !.val = h.val, !.calls = h.calls]
  /\ UNCHANGED <<reg_nodes, reg_adj, active_containers, created, closed, registry, parent,
                 nodes, adj, on_change_listeners, nregs, nadds>>
  /\ ngets' = ngets + 1


\* Container._get after "await data.factory_method(...)" has returned, looking
\* at self._instances again before it stores the result
after_await_rechecking(h, c, id, fac, args) ==
  IF DictValue(h.inst[c], id) \notin {Absent, NoneVal}
    THEN Return(h, DictValue(h.inst[c], id))
    ELSE invoke_factory(h, c, id, fac, args)

\* Container._get after "await data.factory_method(...)" has returned: the
\* assignment "self._instances[dependency_id] = ..." and "return self._instances[...]"
after_await(h, c, id, fac, args) == invoke_factory(h, c, id, fac, args)

\* a coroutine factory suspends inside "await maybe_await(...)"
Suspends(fname) == fname = fAsync.name

\* await c.get(id) in task t, up to the first suspension: the resolution calls
\* an async factory, either the one of id or the one of the dependency that
\* the (synchronous) factory of id requires, and the task is parked in
\* "await data.factory_method(...)" with nothing written yet
GetBegin(t, c, id) ==
  /\ pending[t] = NoPending
  /\ created[c]
  /\ LET h == Container_get(Here, c, id)
     IN /\ Len(h.calls) \in {1, 2}
        /\ Suspends(h.calls[1].f)
        /\ h.calls[Len(h.calls)].id = id
        /\ Len(h.calls) = 2 => ~Suspends(h.calls[2].f)
        /\ pending' = [pending EXCEPT ![t] =
                         [c |-> c, id |-> id,
                          calls |-> [k \in 1..Len(h.calls) |-> [c |-> h.calls[k].c, id |-> h.calls[k].id]],
                          facs |-> [k \in 1..Len(h.calls) |-> nodes[h.calls[k].c][h.calls[k].id].fac],
                          pos |-> 0, size |-> 0]]
  /\ last' = [NoLast EXCEPT !.op = "get_begin", !.t = t, !.c = c, !.id = id, !.e = Req(id),
                            !.out = "suspended"]
  /\ ngets' = ngets + 1
  /\ UNCHANGED <<reg_nodes, reg_adj, active_containers, created, closed, registry, parent,
                 nodes, adj, instances, expression_cache, on_change_listeners, serial,
                 nregs, nadds, constructed>>
  /\ UNCHANGED <<tag, ambient, default_container, scopes, di_enabled, noop>>

\* what is written when the factory a get is parked in returns: the object is
\* stored where the factory belongs; if it was awaited for a parameter, the
\* parameter's expression is cached and the factory of the requested
\* dependency runs; Container.get caches the requested expression
resume(p) ==
  LET h1 == after_await(Here, p.calls[1].c, p.calls[1].id, p.facs[1], <<>>)
  IN IF Len(p.calls) = 1
       THEN [h1 EXCEPT !.cache[p.c] = CacheSet(@, Req(p.id), h1.val)]
       ELSE LET hp == [h1 EXCEPT !.cache[p.calls[2].c] = CacheSet(@, p.facs[2].params[1], h1.val)]
                h2 == invoke_factory(hp, p.calls[2].c, p.id, p.facs[2], <<h1.val>>)
            IN IF h2.out = "ok"
                 THEN [h2 EXCEPT !.cache[p.c] = CacheSet(@, Req(p.id), h2.val)]
                 ELSE h2

\* the get of task t continues after the factory it awaited has returned
GetResume(t) ==
  /\ pending[t] # NoPending /\ pending[t].id \in UserIds
  /\ LET p == pending[t]
         h == resume(p)
     IN /\ h.serial <= MaxObjs
        /\ instances' = h.inst
        /\ expression_cache' = h.cache
        /\ serial' = h.serial
        /\ constructed' = Constructed(constructed, h.calls)
        /\ last' = [NoLast EXCEPT !.op = "get", !.t = t, !.c = p.c, !.id = p.id, !.e = Req(p.id),
                                  !.out = h.out, !.val = h.val, !.calls = h.calls]
  /\ pending' = [pending EXCEPT ![t] = NoPending]
  /\ UNCHANGED <<reg_nodes, reg_adj, active_containers, created, closed, registry, parent,
                 nodes, adj, on_change_listeners, nregs, nadds, ngets>>
  /\ UNCHANGED <<tag, ambient, default_container, scopes, di_enabled, noop>>

\* CancelledError raised at the await with the half-built object stored for
\* the dependency whose factory was running
cancelled_storing_partial(h, p) ==
  Raise([h EXCEPT !.inst[p.calls[1].c] = DictSet(@, p.calls[1].id, ObjVal(p.facs[1].name, 0))],
        "Cancelled")

\* CancelledError raised at "await utils.maybe_await(...)": the assignment to
\* self._instances[dependency_id] is not made, and the error, not being an
\* Exception, passes the "except" clauses of _get and leaves resolve before
\* its cache assignment
cancelled(h, p) == Raise(h, "Cancelled")

\* task t is cancelled while its get is parked
GetCancel(t) ==
  /\ pending[t] # NoPending /\ pending[t].id \in UserIds
  /\ LET h == cancelled(Here, pending[t])
     IN /\ instances' = h.inst
        /\ expression_cache' = h.cache
        /\ last' = [NoLast EXCEPT !.op = "get", !.t = t, !.c = pending[t].c, !.id = pending[t].id,
                                  !.e = Req(pending[t].id), !.out = h.out]
  /\ pending' = [pending EXCEPT ![t] = NoPending]
  /\ UNCHANGED <<reg_nodes, reg_adj, active_containers, created, closed, registry, parent,
                 nodes, adj, on_change_listeners, serial, nregs, nadds, ngets, constructed>>
  /\ UNCHANGED <<tag, ambient, default_container, scopes, di_enabled, noop>>

\* the teardown calls Container.close makes, in the order it makes them
\* the loop of Container.close run over the graph's nodes instead of the
\* container's instances
teardowns_every_node(c, d, i) ==
  LET order == <<ContainerId, "A", "B">>
      all == [k \in 1..Len(order) |->
                [td |-> nodes[c][order[k]].td, id |-> order[k], v |-> DictValue(d, order[k])]]
  IN SelectSeq(all, LAMBDA x : x.td # NoTd)

\* the loop of Container.close: for dependency_id, instance in self._instances.items()
RECURSIVE teardowns(_, _, _)
teardowns(c, d, i) ==
  IF i > Len(d) THEN <<>>
  ELSE LET node == nodes[c][d[i].k]
       IN IF ~HasData(node) \/ node.td = NoTd
            THEN teardowns(c, d, i + 1)
            ELSE <<[td |-> node.td, id |-> d[i].k, v |-> d[i].v]>> \o teardowns(c, d, i + 1)

\* the teardown function raises when it is called
TeardownRaises(td) == td = fBadTd.name

\* the position of the first teardown call that raises, 0 if none does
FirstRaising(tds) ==
  IF \E k \in 1..Len(tds) : TeardownRaises(tds[k].td)
    THEN CHOOSE k \in 1..Len(tds) :
           TeardownRaises(tds[k].td) /\ \A j \in 1..(k - 1) : ~TeardownRaises(tds[j].td)
    ELSE 0

\* the loop of Container.close with each teardown call guarded, so that the
\* calls after a raising one are still made
run_teardowns_guarded(tds) == tds

\* the teardown calls the loop of Container.close makes before it ends: all of
\* them, or those up to the first one that raises
run_teardowns(tds) ==
  IF FirstRaising(tds) = 0 THEN tds ELSE SubSeq(tds, 1, FirstRaising(tds))

\* Container.close
Container_close(c) ==
  /\ created[c]
  /\ IF parent[c] # NoContainer /\ c \notin on_change_listeners[parent[c]]
       THEN \* set.remove raises KeyError
            /\ last' = [NoLast EXCEPT !.op = "close", !.c = c, !.out = "KeyError"]
            /\ UNCHANGED <<on_change_listeners, active_containers, closed>>
       ELSE /\ on_change_listeners' =
                 IF parent[c] # NoContainer
                   THEN [on_change_listeners EXCEPT ![parent[c]] = @ \ {c}]
                   ELSE on_change_listeners
            /\ IF FirstRaising(teardowns(c, instances[c], 1)) # 0
                 THEN \* the teardown's exception leaves close before _unfreeze
                      /\ last' = [NoLast EXCEPT !.op = "close", !.c = c, !.out = "TeardownError",
                                                !.tds = run_teardowns(teardowns(c, instances[c], 1))]
                      /\ UNCHANGED <<active_containers, closed>>
                 ELSE IF c \notin active_containers[registry[c]]
                 THEN \* Registry._unfreeze: set.remove raises KeyError
                      /\ last' = [NoLast EXCEPT !.op = "close", !.c = c, !.out = "KeyError",
                                                !.tds = run_teardowns(teardowns(c, instances[c], 1))]
                      /\ UNCHANGED <<active_containers, closed>>
                 ELSE /\ active_containers' = unfreeze(registry[c], c)
                      /\ closed' = [closed EXCEPT ![c] = TRUE]
                      /\ last' = [NoLast EXCEPT !.op = "close", !.c = c,
                                                !.tds = run_teardowns(teardowns(c, instances[c], 1))]
  /\ UNCHANGED <<reg_nodes, reg_adj, created, registry, parent, nodes, adj, instances,
                 expression_cache, serial, nregs, nadds, ngets, constructed>>

\* an "async def" teardown function suspends before it returns
TeardownSuspends(td) == td = fAsync.name

\* the position in the dict d of the first entry whose teardown suspends
FirstSuspending(c, d) ==
  CHOOSE i \in 0..Len(d) :
    /\ i # 0 => /\ HasData(nodes[c][d[i].k])
                /\ TeardownSuspends(nodes[c][d[i].k].td)
    /\ \A j \in 1..(IF i = 0 THEN Len(d) ELSE i - 1) :
         ~(HasData(nodes[c][d[j].k]) /\ TeardownSuspends(nodes[c][d[j].k].td))

\* what a dict iterator does when it is asked for the next item: it compares
\* the dict's size with the size it saw when the iteration began
dict_next(d, size) == IF Len(d) # size THEN "RuntimeError" ELSE "ok"

\* await c.close() in task t, up to the first teardown that suspends: the
\* change listener is removed, the teardowns of the entries before it have
\* run, and the task is parked inside the loop over self._instances.items()
CloseBegin(t, c) ==
  /\ UNCHANGED <<tag, ambient, default_container, scopes, di_enabled, noop>>
  /\ pending[t] = NoPending
  /\ created[c]
  /\ parent[c] # NoContainer => c \in on_change_listeners[parent[c]]
  /\ FirstSuspending(c, instances[c]) # 0
  /\ FirstRaising(teardowns(c, SubSeq(instances[c], 1, FirstSuspending(c, instances[c])), 1)) = 0
  /\ on_change_listeners' =
       IF parent[c] # NoContainer
         THEN [on_change_listeners EXCEPT ![parent[c]] = @ \ {c}]
         ELSE on_change_listeners
  /\ pending' = [pending EXCEPT ![t] =
                   [c |-> c, id |-> "close", calls |-> <<>>, facs |-> <<>>,
                    pos |-> FirstSuspending(c, instances[c]), size |-> Len(instances[c])]]
  /\ last' = [NoLast EXCEPT !.op = "close_begin", !.t = t, !.c = c, !.out = "suspended",
                            !.tds = teardowns(c, SubSeq(instances[c], 1, FirstSuspending(c, instances[c])), 1)]
  /\ UNCHANGED <<reg_nodes, reg_adj, active_containers, created, closed, registry, parent,
                 nodes, adj, instances, expression_cache, serial, nregs, nadds, ngets, constructed>>

\* the close() of task t continues after the teardown it awaited has
\* returned: the loop asks the dict for its next item, runs the remaining
\* teardowns, and close unfreezes the registry and sets _closed
CloseResume(t) ==
  /\ UNCHANGED <<tag, ambient, default_container, scopes, di_enabled, noop>>
  /\ pending[t] # NoPending /\ pending[t].id = "close"
  /\ LET c == pending[t].c
         rest == teardowns(c, instances[c], pending[t].pos + 1)
     IN IF dict_next(instances[c], pending[t].size) # "ok"
          THEN /\ last' = [NoLast EXCEPT !.op = "close", !.t = t, !.c = c,
                                         !.out = dict_next(instances[c], pending[t].size)]
               /\ UNCHANGED <<active_containers, closed>>
          ELSE IF FirstRaising(rest) # 0
          THEN /\ last' = [NoLast EXCEPT !.op = "close", !.t = t, !.c = c, !.out = "TeardownError",
                                         !.tds = run_teardowns(rest)]
               /\ UNCHANGED <<active_containers, closed>>
          ELSE IF c \notin active_containers[registry[c]]
          THEN /\ last' = [NoLast EXCEPT !.op = "close", !.t = t, !.c = c, !.out = "KeyError",
                                         !.tds = rest]
               /\ UNCHANGED <<active_containers, closed>>
          ELSE /\ active_containers' = unfreeze(registry[c], c)
               /\ closed' = [closed EXCEPT ![c] = TRUE]
               /\ last' = [NoLast EXCEPT !.op = "close", !.t = t, !.c = c, !.tds = rest]
  /\ pending' = [pending EXCEPT ![t] = NoPending]
  /\ UNCHANGED <<reg_nodes, reg_adj, created, registry, parent, nodes, adj, instances,
                 expression_cache, on_change_listeners, serial, nregs, nadds, ngets, constructed>>

\* await container.close()
Close(c) ==
  /\ UNCHANGED mgrVars
  /\ Container_close(c)

(* -------------------- DependencyInjectionManager ----------------------- *)
\* DependencyInjectionManager._registries[context]
registry_for(ctx) == IF ctx = ROOT THEN "R1" ELSE "R2"

\* global_context_registry.type_for(context): ROOT is linked to RootContainer,
\* REQUEST is registered without a linked type
NoType == ""
type_for(ctx) == IF ctx = ROOT THEN RootContainerId ELSE NoType

\* the search of enter_context without the walk up the parent chain
FindTag_ambient_only(c, ctx) ==
  IF c = NoContainer THEN NoContainer
  ELSE IF tag[c] = ctx THEN c
  ELSE NoContainer

\* "this = value; while this: if this._tag == context: ...; this = this._parent"
RECURSIVE FindTag(_, _)
FindTag(c, ctx) ==
  IF c = NoContainer THEN NoContainer
  ELSE IF tag[c] = ctx THEN c
  ELSE FindTag(parent[c], ctx)

\* one enter_context call that has yielded: the container it yielded, whether
\* its exit closes that container, whether it set DI_CONTAINER and the token
Frame(c, own, isset, token) == [c |-> c, own |-> own, isset |-> isset, token |-> token]

\* _NoOpContainer.add_value / add_factory storing what they are given
NoOp_add_storing(st, id) == st \cup {id}
\* _NoOpContainer.add_value / add_factory: "..."
NoOp_add(st, id) == st
\* _NoOpContainer._get: always raises DependencyNotSatisfiableException
NoOp_get(st, id) == "NotSat"

containerVars == <<reg_nodes, reg_adj, active_containers, created, closed, registry, parent, nodes,
                   adj, instances, expression_cache, on_change_listeners, serial, nregs, nadds,
                   ngets, constructed, tag>>

\* DI_CONTAINER.set(c) making the container current for every task
DI_CONTAINER_set_global(amb, t, c) == [u \in Tasks |-> c]
\* DI_CONTAINER.set(c) in task t: a context variable is set in the context of
\* the task that sets it
DI_CONTAINER_set(amb, t, c) == [amb EXCEPT ![t] = c]

\* the container enter_context creates for ctx under the ambient container value:
\* Container(self._registries[context], parent=value, tag=context), then
\* add_value(cls, new_container) for a context with a linked type and
\* add_value(DependencyInjectionManager, self) for ROOT
new_container(c, ctx, value) ==
  /\ ~created[c]
  /\ \A x \in Containers : x < c => created[x]
  /\ LET r == registry_for(ctx)
         g0 == add_value_graph(Graph(reg_nodes[r], reg_adj[r]), ContainerId, NoTd)
         g1 == IF type_for(ctx) # NoType
                 THEN add_value_graph(g0, type_for(ctx), NoTd) ELSE g0
         g2 == IF ctx = ROOT THEN add_value_graph(g1, ManagerId, NoTd) ELSE g1
         i0 == DictSet(<<>>, ContainerId, ContainerVal(c))
         i1 == IF type_for(ctx) # NoType
                 THEN DictSet(i0, type_for(ctx), ContainerVal(c)) ELSE i0
         i2 == IF ctx = ROOT THEN DictSet(i1, ManagerId, ManagerVal) ELSE i1
     IN /\ nodes' = [nodes EXCEPT ![c] = g2.nodes]
        /\ adj' = [adj EXCEPT ![c] = g2.adj]
        /\ instances' = [instances EXCEPT ![c] = i2]
        /\ active_containers' = freeze(r, c)
        /\ registry' = [registry EXCEPT ![c] = r]
  /\ created' = [created EXCEPT ![c] = TRUE]
  /\ parent' = [parent EXCEPT ![c] = value]
  /\ tag' = [tag EXCEPT ![c] = ctx]
  /\ on_change_listeners' =
       IF value # NoContainer THEN [on_change_listeners EXCEPT ![value] = @ \cup {c}]
       ELSE on_change_listeners

\* manager.enter_context(ctx) up to its yield, in task t; by names the
\* decorator on whose behalf the context is entered ("" for a plain "async with")
enter_context(t, ctx, by) ==
  IF ~di_enabled
    THEN /\ scopes' = [scopes EXCEPT ![t] = Append(@, Frame(NoOpContainer, FALSE, FALSE, NoContainer))]
         /\ last' = [NoLast EXCEPT !.op = "enter", !.t = t, !.ctx = ctx, !.fn = by, !.c = NoOpContainer,
                                   !.how = "noop"]
         /\ UNCHANGED <<containerVars, ambient, default_container, di_enabled, pending, noop>>
    ELSE LET value == ambient[t]
             found == FindTag(value, ctx)
             reuse == IF found # NoContainer THEN found
                      ELSE IF ctx = ROOT THEN default_container
                      ELSE NoContainer
         IN IF reuse # NoContainer
              THEN /\ ambient' = DI_CONTAINER_set(ambient, t, reuse)
                   /\ scopes' = [scopes EXCEPT ![t] = Append(@, Frame(reuse, FALSE, TRUE, value))]
                   /\ last' = [NoLast EXCEPT !.op = "enter", !.t = t, !.ctx = ctx, !.fn = by, !.c = reuse,
                                             !.how = IF found # NoContainer THEN "chain" ELSE "default"]
                   /\ UNCHANGED <<containerVars, default_container, di_enabled, pending, noop>>
              ELSE \E c \in Containers :
                   /\ new_container(c, ctx, value)
                   /\ default_container' = IF ctx = ROOT THEN c ELSE default_container
                   /\ ambient' = DI_CONTAINER_set(ambient, t, c)
                   /\ scopes' = [scopes EXCEPT ![t] = Append(@, Frame(c, ctx # ROOT, TRUE, value))]
                   /\ last' = [NoLast EXCEPT !.op = "enter", !.t = t, !.ctx = ctx, !.fn = by, !.c = c,
                                             !.how = "created"]
                   /\ UNCHANGED <<reg_nodes, reg_adj, closed, expression_cache, serial, nregs,
                                  nadds, ngets, constructed, di_enabled, pending, noop>>

\* async with manager.enter_context(ctx), up to the yield, in task t
EnterContext(t, ctx) == enter_context(t, ctx, "")

\* "async with manager.enter_context(Contexts.ROOT): await asyncio.gather(...)"
\* in the main task: the first ROOT scope is entered and every task of Tasks is
\* created inside it, so that each starts with a copy of the main task's
\* context, in which DI_CONTAINER is the root container
EnterRootAndSpawn ==
  /\ di_enabled /\ default_container = NoContainer
  /\ \A t \in Tasks : ambient[t] = NoContainer /\ scopes[t] = <<>>
  /\ \E c \in Containers :
       /\ new_container(c, ROOT, NoContainer)
       /\ default_container' = c
       /\ ambient' = [t \in Tasks |-> c]
       /\ last' = [NoLast EXCEPT !.op = "enter", !.ctx = ROOT, !.c = c, !.how = "created",
                                 !.fn = "main"]
  /\ UNCHANGED <<reg_nodes, reg_adj, closed, expression_cache, serial, nregs,
                 nadds, ngets, constructed, scopes, di_enabled, pending, noop>>

\* leaving the innermost scope of task t without "DI_CONTAINER.reset(token)"
ExitContext_keeping_ambient(t) ==
  /\ scopes[t] # <<>>
  /\ LET fr == scopes[t][Len(scopes[t])]
     IN /\ IF fr.own
             THEN Container_close(fr.c)
             ELSE /\ last' = [NoLast EXCEPT !.op = "exit", !.t = t, !.c = fr.c]
                  /\ UNCHANGED <<reg_nodes, reg_adj, active_containers, created, closed, registry,
                                 parent, nodes, adj, instances, expression_cache,
                                 on_change_listeners, serial, nregs, nadds, ngets, constructed>>
        /\ ambient' = ambient
        /\ scopes' = [scopes EXCEPT ![t] = SubSeq(@, 1, Len(@) - 1)]
  /\ UNCHANGED <<tag, default_container, di_enabled, pending, noop>>

\* leaving the innermost "async with manager.enter_context(...)" of task t:
\* "async with new_container" closes a container the entry created, unless it
\* is the default container; "finally: DI_CONTAINER.reset(token)"
ExitContext(t) ==
  /\ scopes[t] # <<>>
  /\ LET fr == scopes[t][Len(scopes[t])]
     IN /\ IF fr.own
             THEN Container_close(fr.c)
             ELSE /\ last' = [NoLast EXCEPT !.op = "exit", !.t = t, !.c = fr.c]
                  /\ UNCHANGED <<reg_nodes, reg_adj, active_containers, created, closed, registry,
                                 parent, nodes, adj, instances, expression_cache,
                                 on_change_listeners, serial, nregs, nadds, ngets, constructed>>
        /\ ambient' = IF fr.isset THEN [ambient EXCEPT ![t] = fr.token] ELSE ambient
        /\ scopes' = [scopes EXCEPT ![t] = SubSeq(@, 1, Len(@) - 1)]
  /\ UNCHANGED <<tag, default_container, di_enabled, pending, noop>>

\* await manager.close()
ManagerClose ==
  /\ IF default_container # NoContainer
       THEN /\ Container_close(default_container)
            /\ default_container' = IF last'.out = "KeyError" THEN default_container ELSE NoContainer
       ELSE /\ last' = [NoLast EXCEPT !.op = "manager_close"]
            /\ UNCHANGED <<reg_nodes, reg_adj, active_containers, created, closed, registry,
                           parent, nodes, adj, instances, expression_cache,
                           on_change_listeners, serial, nregs, nadds, ngets, constructed,
                           default_container>>
  /\ UNCHANGED <<tag, ambient, scopes, di_enabled, pending, noop>>

\* _NOOP_CONTAINER.add_value(typ, value) / add_factory(typ, factory)
NoOpAdd(id, isFactory) ==
  /\ ~di_enabled
  /\ noop' = NoOp_add(noop, id)
  /\ nadds' = nadds + 1
  /\ last' = [NoLast EXCEPT !.op = IF isFactory THEN "noop_add_factory" ELSE "noop_add_value",
                            !.c = NoOpContainer, !.id = id]
  /\ UNCHANGED <<reg_nodes, reg_adj, active_containers, created, closed, registry, parent, nodes,
                 adj, instances, expression_cache, on_change_listeners, serial, nregs,
                 ngets, constructed, tag, ambient, default_container, scopes, di_enabled, pending>>

\* await _NOOP_CONTAINER.get(typ)
NoOpGet(id) ==
  /\ ~di_enabled
  /\ ngets' = ngets + 1
  /\ last' = [NoLast EXCEPT !.op = "noop_get", !.c = NoOpContainer, !.id = id,
                            !.out = NoOp_get(noop, id)]
  /\ UNCHANGED <<reg_nodes, reg_adj, active_containers, created, closed, registry, parent, nodes,
                 adj, instances, expression_cache, on_change_listeners, serial, nregs,
                 nadds, constructed, tag, ambient, default_container, scopes, di_enabled, pending, noop>>

(* ---------------------------- AutoInjecting ---------------------------- *)
\* _parse_injectable_params: a parameter is (name, expression or CANNOT_INJECT);
\* hasDefault records "= INJECTED" (or any default) in the signature
CANNOT_INJECT == Expr(FALSE, <<>>)
Param(name, dep, hasDefault) == [name |-> name, dep |-> dep, hasDefault |-> hasDefault]
\* async def fn(x, a: A = INJECTED, *, b: B = INJECTED)
plain_fn == [name |-> "fn",
             pos |-> <<Param("x", CANNOT_INJECT, FALSE), Param("a", Req("A"), TRUE)>>,
             kw |-> <<Param("b", Req("B"), TRUE)>>]
\* class K: async def m(self, x, a: A = INJECTED, *, b: B = INJECTED)
method_fn == [name |-> "m",
              pos |-> <<Param("self", CANNOT_INJECT, FALSE), Param("x", CANNOT_INJECT, FALSE),
                        Param("a", Req("A"), TRUE)>>,
              kw |-> <<Param("b", Req("B"), TRUE)>>]
Callables == {plain_fn, method_fn}
\* AutoInjecting._self: None for a plain function; for a method taken from an
\* instance, the instance, whose truth value is its __bool__ / __len__
Selves(fn) == IF fn = plain_fn THEN {"none"} ELSE {"truthy", "falsy"}

\* values the caller passes and the default left in place when nothing is passed
ArgVal(i) == [k |-> "arg", f |-> "", n |-> i]
KwVal(name) == [k |-> "kwarg", f |-> name, n |-> 0]
SelfVal == [k |-> "self", f |-> "", n |-> 0]
INJECTED == [k |-> "INJECTED", f |-> "", n |-> 0]

\* the caller's **kwargs as a dict
KwOrder == <<"x", "a", "b">>
KwDict(names) ==
  LET given == SelectSeq(KwOrder, LAMBDA n : n \in names)
  IN [i \in 1..Len(given) |-> [k |-> given[i], v |-> KwVal(given[i])]]

\* the guards of the generated resolver: the parameters it resolves, in order.
\* "if '{name}' not in new_kwargs and arglen < ({i + 1} - offset)" for the
\* positional-or-keyword parameter at index i (from 0), and
\* "if '{name}' not in new_kwargs" for a keyword-only parameter
ToInject(fn, offset, nargs, kw) ==
  LET posIdx == {i \in 1..Len(fn.pos) :
                   /\ fn.pos[i].dep # CANNOT_INJECT
                   /\ fn.pos[i].name \notin kw
                   /\ nargs < i - offset}
      kwIdx == {i \in 1..Len(fn.kw) : fn.kw[i].dep # CANNOT_INJECT /\ fn.kw[i].name \notin kw}
  IN SelectSeq([i \in 1..Len(fn.pos) |-> IF i \in posIdx THEN fn.pos[i] ELSE Param("", CANNOT_INJECT, FALSE)],
               LAMBDA x : x.name # "")
     \o SelectSeq([i \in 1..Len(fn.kw) |-> IF i \in kwIdx THEN fn.kw[i] ELSE Param("", CANNOT_INJECT, FALSE)],
                  LAMBDA x : x.name # "")

\* the statements of the generated resolver run in order:
\* "new_kwargs['{name}'] = await expr.resolve(container)"
RECURSIVE resolve_missing(_, _, _, _, _)
resolve_missing(h, c, todo, i, new_kwargs) ==
  IF i > Len(todo) THEN [Return(h, Absent) EXCEPT !.args = new_kwargs]
  ELSE LET r == resolve(h, c, todo[i].dep, MaxDepth)
       IN IF r.out # "ok" THEN [r EXCEPT !.args = new_kwargs]
          ELSE resolve_missing(r, c, todo, i + 1, DictSet(new_kwargs, todo[i].name, r.val))

\* the generated resolver leaving the keyword arguments as they are when there
\* is no container
resolve_dependencies_lenient(h, c, offset, fn, nargs, kw) ==
  IF c = NoContainer THEN [Return(h, Absent) EXCEPT !.args = KwDict(kw)]
  ELSE resolve_missing(h, c, ToInject(fn, offset, nargs, kw), 1, KwDict(kw))

\* resolve_dependencies(container, offset, args, kwargs), the function
\* _codegen_dependency_func generates
resolve_dependencies(h, c, offset, fn, nargs, kw) ==
  resolve_missing(h, c, ToInject(fn, offset, nargs, kw), 1, KwDict(kw))

\* Python binding the call self._func(*positional, **new_kwargs) to the
\* signature: a dict name -> value, or <<>> with ok FALSE for a TypeError
Bind(fn, positional, new_kwargs) ==
  LET names == [i \in 1..Len(fn.pos) |-> fn.pos[i].name]
      all == fn.pos \o fn.kw
      byPos(n) == {i \in 1..Len(positional) : i <= Len(names) /\ names[i] = n}
      value(prm) ==
        IF byPos(prm.name) # {} THEN positional[CHOOSE i \in byPos(prm.name) : TRUE]
        ELSE IF prm.name \in DictKeys(new_kwargs) THEN DictValue(new_kwargs, prm.name)
        ELSE IF prm.hasDefault THEN INJECTED
        ELSE Absent
      bound == [i \in 1..Len(all) |-> [k |-> all[i].name, v |-> value(all[i])]]
      ok == /\ Len(positional) <= Len(names)
            /\ \A i \in 1..Len(positional) : names[i] \notin DictKeys(new_kwargs)
            /\ \A i \in 1..Len(bound) : bound[i].v # Absent
  IN [ok |-> ok, got |-> IF ok THEN bound ELSE <<>>]

\* the rest of AutoInjecting.__call__ once resolve_dependencies has returned h:
\* "return await self._func(self._self, *args, **new_kwargs)" when self._self
\* is truthy, "return await self._func(*args, **new_kwargs)" otherwise
Invoke(t, fn, self_, nargs, kw, h) ==
  /\ LET args == [i \in 1..nargs |-> ArgVal(i)]
         positional == IF self_ = "truthy" THEN <<SelfVal>> \o args ELSE args
         b == Bind(fn, positional, h.args)
     IN /\ h.serial <= MaxObjs
        /\ instances' = h.inst
        /\ expression_cache' = h.cache
        /\ serial' = h.serial
        /\ constructed' = Constructed(constructed, h.calls)
        /\ last' = [NoLast EXCEPT !.op = "call", !.t = t, !.c = ambient[t], !.fn = fn.name,
                                  !.self = self_, !.nargs = nargs, !.kw = kw,
                                  !.calls = h.calls,
                                  !.inj = DictKeys(h.args) \ kw,
                                  !.out = IF h.out # "ok" THEN "NotSat"
                                          ELSE IF ~b.ok THEN "TypeError" ELSE "ok",
                                  !.invoked = (h.out = "ok" /\ b.ok),
                                  !.got = IF h.out = "ok" THEN b.got ELSE <<>>]
  /\ ngets' = ngets + 1
  /\ UNCHANGED <<reg_nodes, reg_adj, active_containers, created, closed, registry, parent,
                 nodes, adj, on_change_listeners, nregs, nadds>>
  /\ UNCHANGED mgrVars

\* AutoInjecting.__call__(*args, **kwargs) in task t
Call(t, fn, self_, nargs, kw) ==
  Invoke(t, fn, self_, nargs, kw,
         resolve_dependencies(Here, ambient[t], IF self_ = "truthy" THEN 1 ELSE 0, fn, nargs, kw))

(* --------------------------- specification ----------------------------- *)
Init ==
  /\ reg_nodes = [r \in Registries |-> [id \in Ids |-> NoNode]]
  /\ reg_adj = [r \in Registries |-> [id \in Ids |-> {}]]
  /\ active_containers = [r \in Registries |-> {}]
  /\ created = [c \in Containers |-> FALSE]
  /\ closed = [c \in Containers |-> FALSE]
  /\ registry = [c \in Containers |-> "R1"]
  /\ parent = [c \in Containers |-> NoContainer]
  /\ nodes = [c \in Containers |-> [id \in Ids |-> NoNode]]
  /\ adj = [c \in Containers |-> [id \in Ids |-> {}]]
  /\ instances = [c \in Containers |-> <<>>]
  /\ expression_cache = [c \in Containers |-> {}]
  /\ on_change_listeners = [c \in Containers |-> {}]
  /\ serial = 0
  /\ nregs = 0
  /\ nadds = 0
  /\ ngets = 0
  /\ constructed = [c \in Containers |-> <<>>]
  /\ last = NoLast
  /\ tag = [c \in Containers |-> NoTag]
  /\ ambient = [t \in Tasks |-> NoContainer]
  /\ default_container = NoContainer
  /\ scopes = [t \in Tasks |-> <<>>]
  /\ di_enabled = TRUE
  /\ noop = {}
  /\ pending = [t \in Tasks |-> NoPending]

NoneCreated == \A c \in Containers : ~created[c]
\* the hierarchy and registration scenarios create at most MaxHier containers
MayCreate == Cardinality({c \in Containers : created[c]}) < MaxHier

\* Budgets of the callers: registration calls that reach the graph, container
\* level additions, resolution calls.
MayRegister(r) == active_containers[r] = {} => nregs < MaxRegs
MayAdd == nadds < MaxAdds
MayGet == ngets < MaxGets

\* Container hierarchy: the root registry is filled first, then one root
\* container and child containers on the scope registry are created,
\* overridden, queried and closed in any order.
HierRegs == {<<"A", fDep("B")>>, <<"B", fNew>>}
HierFactories == {fNew, fDep("B")}
Next ==
  \/ NoneCreated /\ MayRegister("R1") /\ \E x \in HierRegs : RegisterFactory("R1", x[1], x[2], TRUE)
  \/ NoneCreated /\ MayRegister("R1") /\ \E v \in RegVals : RegisterValue("R1", "B", v, TRUE)
  \/ NoneCreated /\ NewContainer("R1", NoContainer)
  \/ MayCreate /\ \E p \in Containers : NewContainer("R2", p)
  \/ MayAdd /\ \E c \in Containers, id \in UserIds, v \in AddVals : AddValue(c, id, v, FALSE)
  \/ MayAdd /\ \E c \in Containers, id \in UserIds, fac \in HierFactories : AddFactory(c, id, fac, TRUE)
  \/ MayGet /\ \E c \in Containers, id \in UserIds : Get(c, id)
  \/ \E c \in Containers : Close(c)

Spec == Init /\ [][Next]_vars

\* Lifetime of one container: construction, resolution through get and
\* through expressions, container-level values, close.
CloseFactories == {fNew, fNone, fRaise, fDep("B")}
ResolveExprs == {Req("A"), OptTry("A"), OptIf("B"), OptTry("B")}
NextClose ==
  \/ NoneCreated /\ MayRegister("R1") /\ \E id \in UserIds, fac \in CloseFactories :
       RegisterFactory("R1", id, fac, TRUE)
  \/ NoneCreated /\ NewContainer("R1", NoContainer)
  \/ MayAdd /\ \E c \in Containers, id \in UserIds, v \in AddVals, withTd \in BOOLEAN :
       AddValue(c, id, v, withTd)
  \/ MayGet /\ \E c \in Containers, id \in UserIds : Get(c, id)
  \/ MayGet /\ \E c \in Containers, e \in ResolveExprs : Resolve(c, e)
  \/ \E c \in Containers : Close(c)

SpecClose == Init /\ [][NextClose]_vars

\* Registration against a registry that containers freeze and unfreeze.
RegFactories == {fNew, fDep("A"), fDep("B")}
NextReg ==
  \/ MayRegister("R1") /\ \E id \in UserIds, fac \in RegFactories : RegisterFactory("R1", id, fac, TRUE)
  \/ MayRegister("R1") /\ \E id \in UserIds, v \in RegVals : RegisterValue("R1", id, v, TRUE)
  \/ MayCreate /\ NewContainer("R1", NoContainer)
  \/ MayGet /\ \E c \in Containers, id \in UserIds : Get(c, id)
  \/ \E c \in Containers : Close(c)

SpecReg == Init /\ [][NextReg]_vars

\* A tree of up to MaxContainers containers (chains, siblings, several roots on
\* one registry) with container-level additions, cached expressions and close.
TreeExprs == {Req("A"), OptIf("B")}
NextTree ==
  \/ NoneCreated /\ MayRegister("R1") /\ RegisterFactory("R1", "A", fNew, FALSE)
  \/ NewContainer("R1", NoContainer)
  \/ \E p \in Containers : NewContainer("R2", p)
  \/ MayAdd /\ \E c \in Containers, id \in UserIds : AddValue(c, id, UserVal(2), FALSE)
  \/ MayAdd /\ \E c \in Containers, id \in UserIds : AddFactory(c, id, fNew, FALSE)
  \/ MayGet /\ \E c \in Containers, e \in TreeExprs : Resolve(c, e)
  \/ \E c \in Containers : Close(c)

SpecTree == Init /\ [][NextTree]_vars

\* Expressions resolved in a parent-child pair of containers: optional and
\* multi-condition expressions over factories that succeed, return None or throw.
ExprFactories == {fNew, fNone, fRaise}
ExprAddFactories == {fNew, fRaise}
ExprExprs == {OptIf("A"), OptTry("A"), Either(TRUE, "If", "A", "Try", "B"),
              Either(FALSE, "Try", "A", "If", "B"), Either(TRUE, "Try", "B", "Try", "A")}
NextExpr ==
  \/ NoneCreated /\ MayRegister("R1") /\ \E id \in UserIds, fac \in ExprFactories :
       RegisterFactory("R1", id, fac, FALSE)
  \/ NoneCreated /\ NewContainer("R1", NoContainer)
  \/ MayCreate /\ \E p \in Containers : NewContainer("R2", p)
  \/ MayAdd /\ \E c \in Containers, id \in UserIds, fac \in ExprAddFactories : AddFactory(c, id, fac, FALSE)
  \/ MayGet /\ \E c \in Containers, e \in ExprExprs : Resolve(c, e)
  \/ \E c \in Containers : Close(c)

SpecExpr == Init /\ [][NextExpr]_vars

\* Scopes of the manager entered and left by concurrent tasks, with a root
\* dependency that has a teardown, resolved through the containers yielded.
RECURSIVE OpenScopes(_)
OpenScopes(ts) ==
  IF ts = {} THEN 0
  ELSE LET t == CHOOSE x \in ts : TRUE IN Len(scopes[t]) + OpenScopes(ts \ {t})
\* at most MaxScopes scopes are open at a time, over all tasks
MayEnter == OpenScopes(Tasks) < MaxScopes
NextScope ==
  \/ NoneCreated /\ MayRegister("R1") /\ RegisterFactory("R1", "A", fNew, TRUE)
  \/ \E t \in Tasks, ctx \in Tags : MayEnter /\ EnterContext(t, ctx)
  \/ \E t \in Tasks : ExitContext(t)
  \/ ManagerClose
  \/ MayGet /\ \E t \in Tasks : ambient[t] # NoContainer /\ Get(ambient[t], "A")

SpecScope == Init /\ [][NextScope]_vars

\* Injection globally disabled (LINKD_DI_DISABLED set): the manager's scopes
\* and registries, and the no-op container.
InitDisabled ==
  /\ reg_nodes = [r \in Registries |-> [id \in Ids |-> NoNode]]
  /\ reg_adj = [r \in Registries |-> [id \in Ids |-> {}]]
  /\ active_containers = [r \in Registries |-> {}]
  /\ created = [c \in Containers |-> FALSE]
  /\ closed = [c \in Containers |-> FALSE]
  /\ registry = [c \in Containers |-> "R1"]
  /\ parent = [c \in Containers |-> NoContainer]
  /\ nodes = [c \in Containers |-> [id \in Ids |-> NoNode]]
  /\ adj = [c \in Containers |-> [id \in Ids |-> {}]]
  /\ instances = [c \in Containers |-> <<>>]
  /\ expression_cache = [c \in Containers |-> {}]
  /\ on_change_listeners = [c \in Containers |-> {}]
  /\ serial = 0
  /\ nregs = 0
  /\ nadds = 0
  /\ ngets = 0
  /\ constructed = [c \in Containers |-> <<>>]
  /\ last = NoLast
  /\ tag = [c \in Containers |-> NoTag]
  /\ ambient = [t \in Tasks |-> NoContainer]
  /\ default_container = NoContainer
  /\ scopes = [t \in Tasks |-> <<>>]
  /\ di_enabled = FALSE
  /\ noop = {}
  /\ pending = [t \in Tasks |-> NoPending]

NextDisabled ==
  \/ \E r \in Registries : nregs < MaxRegs /\ \E id \in UserIds : RegisterFactory(r, id, fNew, FALSE)
  \/ \E t \in Tasks, ctx \in Tags : MayEnter /\ EnterContext(t, ctx)
  \/ \E t \in Tasks : ExitContext(t)
  \/ ManagerClose
  \/ MayAdd /\ \E id \in UserIds, isFactory \in BOOLEAN : NoOpAdd(id, isFactory)
  \/ MayGet /\ \E id \in UserIds : NoOpGet(id)

SpecDisabled == InitDisabled /\ [][NextDisabled]_vars

\* Injected callables called by a task inside and outside the manager's scopes.
InjectFactories == {fNew, fRaise}
KwNames == {"a", "b"}
MayCall == ngets < MaxCalls
NextInject ==
  \/ NoneCreated /\ MayRegister("R1") /\ \E id \in UserIds, fac \in InjectFactories :
       RegisterFactory("R1", id, fac, FALSE)
  \/ \E ctx \in Tags : MayEnter /\ EnterContext(1, ctx)
  \/ ExitContext(1)
  \/ MayCall /\ \E fn \in Callables : \E self_ \in Selves(fn), nargs \in 0..2, kw \in SUBSET KwNames :
       Call(1, fn, self_, nargs, kw)

SpecInject == Init /\ [][NextInject]_vars

\* Ownership of instances: a root container on the filled registry, child
\* containers created under it and under each other, opened and closed one
\* after another or side by side, with a dependency that has a teardown.
OwnFactories == {fNew, fNone}
NextOwn ==
  \/ NoneCreated /\ MayRegister("R1") /\ \E fac \in OwnFactories : RegisterFactory("R1", "A", fac, TRUE)
  \/ NoneCreated /\ NewContainer("R1", NoContainer)
  \/ \E p \in Containers : NewContainer("R2", p)
  \/ MayAdd /\ \E c \in Containers, v \in AddVals : AddValue(c, "A", v, TRUE)
  \/ MayAdd /\ \E c \in Containers : AddFactory(c, "A", fNew, TRUE)
  \/ MayGet /\ \E c \in Containers : Get(c, "A")
  \/ \E c \in Containers : Close(c)

SpecOwn == Init /\ [][NextOwn]_vars

\* A function decorated with manager.contextual(ROOT, REQUEST), called by
\* tasks inside and outside scopes entered with "async with": the wrapper
\* enters its contexts one after the other without suspending in between,
\* runs the function and unwinds its exit stack.
ContextualContexts == <<ROOT, REQUEST>>
\* the wrapper of task last.t has entered its first context and not yet its last
Entering == last.op = "enter" /\ last.fn = "contextual" /\ last.ctx = ContextualContexts[1]
NextCtx ==
  \/ ~Entering /\ NoneCreated /\ MayRegister("R2") /\ RegisterFactory("R2", "A", fNew, TRUE)
  \/ ~Entering /\ \E t \in Tasks, ctx \in Tags : MayEnter /\ EnterContext(t, ctx)
  \/ ~Entering /\ \E t \in Tasks : ExitContext(t)
  \/ ~Entering /\ ManagerClose
  \/ ~Entering /\ MayGet /\ \E t \in Tasks : ambient[t] # NoContainer /\ Get(ambient[t], "A")
  \/ ~Entering /\ \E t \in Tasks : MayEnter /\ enter_context(t, ContextualContexts[1], "contextual")
  \/ Entering /\ enter_context(last.t, ContextualContexts[2], "contextual")

SpecCtx == Init /\ [][NextCtx]_vars

\* Concurrent tasks created inside one ROOT scope: each enters and leaves
\* scopes of its own, adds a value of its own to the container its innermost
\* scope created, and resolves through its ambient container.
InOwnScope(t) == scopes[t] # <<>> /\ scopes[t][Len(scopes[t])].own
NextSpawn ==
  \/ NoneCreated /\ MayRegister("R2") /\ RegisterFactory("R2", "A", fNew, TRUE)
  \/ EnterRootAndSpawn
  \/ \E t \in Tasks, ctx \in Tags : ambient[t] # NoContainer /\ MayEnter /\ EnterContext(t, ctx)
  \/ \E t \in Tasks : ExitContext(t)
  \/ MayAdd /\ \E t \in Tasks, id \in UserIds : InOwnScope(t) /\ AddValue(ambient[t], id, UserVal(t), FALSE)
  \/ MayGet /\ \E t \in Tasks, id \in UserIds : ambient[t] # NoContainer /\ Get(ambient[t], id)

SpecSpawn == Init /\ [][NextSpawn]_vars

\* Tasks resolving through the same containers while an async factory is
\* suspended: gets that park in the factory, resume or are cancelled, mixed
\* with gets that run to completion, container-level values and close.
RaceRegs == {<<"A", fAsync>>, <<"A", fDep("B")>>, <<"B", fAsync>>, <<"B", fNew>>}
NextRace ==
  \/ NoneCreated /\ MayRegister("R1") /\ \E x \in RaceRegs : RegisterFactory("R1", x[1], x[2], TRUE)
  \/ NoneCreated /\ NewContainer("R1", NoContainer)
  \/ MayCreate /\ \E p \in Containers : NewContainer("R2", p)
  \/ MayGet /\ \E t \in Tasks, c \in Containers, id \in UserIds : GetBegin(t, c, id)
  \/ \E t \in Tasks : GetResume(t)
  \/ \E t \in Tasks : GetCancel(t)
  \/ MayGet /\ \E c \in Containers, id \in UserIds : Get(c, id)
  \/ MayAdd /\ \E c \in Containers, id \in UserIds : AddValue(c, id, UserVal(2), TRUE)
  \/ \E c \in Containers : Close(c)

SpecRace == Init /\ [][NextRace]_vars

\* One container over a registry whose factories have parameters: a factory
\* for A that requires B, or B and then the manager; B provided by a factory
\* that returns an object, by one that raises, or not at all.
SubRegs == {<<"A", fDep("B")>>, <<"A", fBoth>>, <<"B", fNew>>, <<"B", fRaise>>}
NextSub ==
  \/ NoneCreated /\ MayRegister("R1") /\ \E x \in SubRegs : RegisterFactory("R1", x[1], x[2], TRUE)
  \/ NoneCreated /\ NewContainer("R1", NoContainer)
  \/ MayCreate /\ \E p \in Containers : NewContainer("R2", p)
  \/ MayGet /\ \E c \in Containers, id \in UserIds : Get(c, id)
  \/ MayGet /\ \E c \in Containers, e \in {OptTry("A"), Req("B")} : Resolve(c, e)
  \/ \E c \in Containers : Close(c)

SpecSub == Init /\ [][NextSub]_vars

\* "If[A] | B" resolved in a chain of containers where A is provided by a
\* factory that returns an object, returns None or raises, or is not known.
IfAB == Either(TRUE, "If", "A", "If", "B")
IfRegs == {<<"A", fNew>>, <<"A", fNone>>, <<"A", fRaise>>, <<"B", fNew>>}
NextIf ==
  \/ NoneCreated /\ MayRegister("R1") /\ \E x \in IfRegs : RegisterFactory("R1", x[1], x[2], FALSE)
  \/ NoneCreated /\ NewContainer("R1", NoContainer)
  \/ MayCreate /\ \E p \in Containers : NewContainer("R2", p)
  \/ MayAdd /\ \E c \in Containers, fac \in {fRaise, fNew} : AddFactory(c, "A", fac, FALSE)
  \/ MayGet /\ \E c \in Containers, e \in {IfAB, Req("B")} : Resolve(c, e)
  \/ \E c \in Containers : Close(c)

SpecIf == Init /\ [][NextIf]_vars

\* Containers whose dependencies have teardown functions, one of which
\* raises: registered on the registry or added to a container, instantiated
\* in either order, and closed, possibly more than once.
TdFactories == {fNew, fBadTd}
NextTd ==
  \/ NoneCreated /\ MayRegister("R1") /\ \E id \in UserIds, fac \in TdFactories :
       RegisterFactory("R1", id, fac, TRUE)
  \/ NoneCreated /\ NewContainer("R1", NoContainer)
  \/ MayCreate /\ \E p \in Containers : NewContainer("R2", p)
  \/ MayAdd /\ \E c \in Containers, id \in UserIds : AddFactory(c, id, fBadTd, TRUE)
  \/ MayGet /\ \E c \in Containers, id \in UserIds : Get(c, id)
  \/ \E c \in Containers : Close(c)

SpecTd == Init /\ [][NextTd]_vars

\* close() running concurrently with resolutions: A has an async factory and
\* an async teardown, B a plain factory and teardown; gets park in A's
\* factory, closes park in A's teardown, and other calls run in between.
CloseRaceRegs == {<<"A", fAsync>>, <<"B", fNew>>}
NextCloseRace ==
  \/ NoneCreated /\ MayRegister("R1") /\ \E x \in CloseRaceRegs : RegisterFactory("R1", x[1], x[2], TRUE)
  \/ NoneCreated /\ NewContainer("R1", NoContainer)
  \/ MayCreate /\ \E p \in Containers : NewContainer("R2", p)
  \/ MayGet /\ \E t \in Tasks, c \in Containers, id \in UserIds : GetBegin(t, c, id)
  \/ \E t \in Tasks : GetResume(t)
  \/ MayGet /\ \E c \in Containers, id \in UserIds : Get(c, id)
  \/ \E t \in Tasks, c \in Containers : CloseBegin(t, c)
  \/ \E t \in Tasks : CloseResume(t)
  \/ \E c \in Containers : Close(c)

SpecCloseRace == Init /\ [][NextCloseRace]_vars

(* ------------------------------ helpers -------------------------------- *)
RECURSIVE Ancestors(_)
Ancestors(c) == IF parent[c] = NoContainer THEN {} ELSE {parent[c]} \cup Ancestors(parent[c])
ChainOpen(c) == ~closed[c] /\ \A a \in Ancestors(c) : ~closed[a]

\* what await c.get(id) would do if it were called in the current state
WouldGet(c, id) == Container_get(Here, c, id)

IsGet == last.op = "get" /\ last.id \in UserIds
HasParent(c) == c # NoContainer /\ parent[c] # NoContainer
OnlyInParent(c, id) == HasParent(c) /\ ~HasData(nodes[c][id]) /\ HasData(nodes[parent[c]][id])
Overridden(c, id) == HasParent(c) /\ HasData(nodes[c][id]) /\ HasData(nodes[parent[c]][id])
BuiltBy(c, id, v) == \E i \in 1..Len(constructed[c]) : constructed[c][i].id = id /\ constructed[c][i].v = v

(* ------------------------------- claims -------------------------------- *)
\* C1 (first half): a get(T) on a child C whose type T has a node only in the
\* graph of its parent P ends as P.get(T) ends and returns the instance P
\* holds and returns for T.
C1_Delegated ==
  (IsGet /\ OnlyInParent(last.c, last.id) /\ ChainOpen(last.c)) =>
     LET pg == WouldGet(parent[last.c], last.id)
     IN /\ last.out = pg.out
        /\ last.val = pg.val
        /\ last.out = "ok" => /\ DictValue(instances[parent[last.c]], last.id) = last.val
                              /\ last.id \notin DictKeys(instances[last.c])

\* C1 (second half, the get): once T is overridden on C, a successful get(T)
\* on C returns the value C itself holds for T, added to C or built by C.
C1_OwnValue ==
  (IsGet /\ Overridden(last.c, last.id) /\ last.out = "ok") =>
     /\ last.val = DictValue(instances[last.c], last.id)
     /\ \/ last.val \in AddVals
        \/ BuiltBy(last.c, last.id, last.val)

\* C1 (second half, the parent): overriding T on C, and getting T from C
\* afterwards, leaves the instance P holds for T, and what P.get(T) returns,
\* as they were; right after add_value(T, v) a get(T) on C would return v.
C1_ParentUnaffected ==
  \A c \in Containers, id \in UserIds :
    (/\ last'.op \in {"add_value", "add_factory", "get"}
     /\ last'.c = c /\ last'.id = id /\ last'.out = "ok"
     /\ created[c] /\ HasParent(c)
     /\ (Overridden(c, id))')
    => LET orig == DictValue(instances[parent[c]], id)
       IN /\ DictValue(instances'[parent[c]], id) = orig
          /\ (orig \notin {Absent, NoneVal} /\ ~closed[parent[c]]) => (WouldGet(parent[c], id).val)' = orig
          /\ (last'.op = "add_value" /\ ~closed[c]) => (WouldGet(c, id).val)' = last'.val

\* C1: a child resolves a type registered only on its parent to the parent's
\* instance; an override on the child wins on the child and leaves the parent
\* unaffected.
C1_ChildParentResolution == [][C1_Delegated' /\ C1_OwnValue' /\ C1_ParentUnaffected]_vars

\* C1 witness: T is overridden on C, get(T) on C returned C's own value while
\* the parent still holds a different instance for T.
C1_Witness ==
  /\ IsGet /\ Overridden(last.c, last.id) /\ last.out = "ok"
  /\ DictValue(instances[parent[last.c]], last.id) \notin {Absent, NoneVal, last.val}

\* the node of c's graph for id is one register_value wrote
IsRegisteredValue(c, id) == HasData(nodes[c][id]) /\ nodes[c][id].fac.name = "lambda_value"

\* C2: get(T) on an open container whose node for T is the one register_value
\* wrote to its registry (no container-level override) returns the registered
\* value, on the first call and on every later call.
C2_RegisteredValueStable ==
  (IsGet /\ ~closed[last.c] /\ IsRegisteredValue(last.c, last.id))
  => /\ last.out = "ok"
     /\ last.val = nodes[last.c][last.id].fac.val
     /\ last.val \in RegVals

\* C2 witness: a later get(T) of a registered value, served from the memoised
\* instance without invoking the factory again.
C2_Witness ==
  /\ IsGet /\ ~closed[last.c] /\ IsRegisteredValue(last.c, last.id)
  /\ last.out = "ok" /\ last.val \in RegVals
  /\ last.calls = <<>>

IsClose == last.op = "close" /\ last.out = "ok"
\* how many teardown calls the close made for id
TdCount(id) == Cardinality({i \in 1..Len(last.tds) : last.tds[i].id = id})
\* how many teardown calls the close made that were handed v
TdCountOf(id, v) ==
  Cardinality({i \in 1..Len(last.tds) : last.tds[i].id = id /\ last.tds[i].v = v})
HasTeardown(c, id) == HasData(nodes[c][id]) /\ nodes[c][id].td # NoTd

C4_InverseCreationOrder ==
  IsClose =>
    \A i, j \in 1..Len(last.tds) :
      i < j =>
        \A p, q \in 1..Len(constructed[last.c]) :
          (/\ constructed[last.c][p].id = last.tds[i].id
           /\ constructed[last.c][p].v = last.tds[i].v
           /\ constructed[last.c][q].id = last.tds[j].id
           /\ constructed[last.c][q].v = last.tds[j].v
           /\ p # q)
          => p > q

\* C5: once a container is closed every resolution call against it fails,
\* Container.get as well as DependencyExpression.resolve, whatever the
\* expression and whether or not it was resolved before the close.
C5_ClosedFailsEveryResolution ==
  (last.op \in {"get", "resolve"} /\ closed[last.c]) => last.out # "ok"

IsRegister == last.op \in {"register_value", "register_factory"}
\* the containers created on r and not yet closed
BoundOpen(r) == {c \in Containers : created[c] /\ registry[c] = r /\ ~closed[c]}

\* C6: while at least one container bound to a registry has been created and
\* not yet closed, register_value and register_factory on that registry raise
\* RegistryFrozenException and leave the registry's graph unchanged.
C6_FrozenRegistryRejects ==
  [][(last'.op \in {"register_value", "register_factory"} /\ BoundOpen(last'.r) # {})
       => /\ last'.out = "RegistryFrozen"
          /\ reg_nodes' = reg_nodes
          /\ reg_adj' = reg_adj]_vars

\* C6 witness: a registration rejected with RegistryFrozenException on a
\* registry that already holds a dependency and has an open bound container.
C6_Witness ==
  /\ IsRegister /\ last.out = "RegistryFrozen"
  /\ BoundOpen(last.r) # {}
  /\ \E id \in UserIds : HasData(reg_nodes[last.r][id])

\* C7: a registry's set of active containers is exactly the set of containers
\* created on it and not yet closed, and a registration is rejected as frozen
\* exactly when that set is non-empty (so it succeeds again once the last
\* bound container has been closed).
C7_FrozenIffBoundOpen ==
  /\ \A r \in Registries : active_containers[r] = BoundOpen(r)
  /\ IsRegister => (last.out = "RegistryFrozen" <=> BoundOpen(last.r) # {})

\* C7 witness: a registration that succeeded after every container bound to
\* the registry, more than one, had been closed.
C7_Witness ==
  /\ IsRegister /\ last.out = "ok"
  /\ Cardinality({c \in Containers : created[c]}) > 1
  /\ \A c \in Containers : created[c] => closed[c] /\ registry[c] = last.r

\* C8 (as stated): register_factory(T, f) where f's parameters directly
\* require T fails with CircularDependencyException.
C8_Original ==
  (last.op = "register_factory" /\ last.id \in last.deps) => last.out = "Circular"

\* C8 (amended): on a registry with no open bound container,
\* register_factory(T, f) where f's parameters directly require T fails at
\* registration with CircularDependencyException; on a frozen registry it fails
\* with RegistryFrozenException; either way no registry ever stores for T a
\* factory that requires T, so no get is needed to detect it.
C8_SelfDependencyRejected ==
  /\ (last.op = "register_factory" /\ last.id \in last.deps)
       => last.out = (IF BoundOpen(last.r) = {} THEN "Circular" ELSE "RegistryFrozen")
  /\ \A r \in Registries, id \in Ids :
       HasData(reg_nodes[r][id]) => id \notin FactoryDeps(reg_nodes[r][id].fac)

\* C8 witness: a self-requiring factory rejected with CircularDependencyException
\* by an unfrozen registry.
C8_Witness ==
  /\ last.op = "register_factory" /\ last.id \in last.deps
  /\ BoundOpen(last.r) = {}
  /\ last.out = "Circular"

\* what the factory stored for id in c's graph requires, by its parameters
Requires(c) ==
  [id \in Ids |-> IF HasData(nodes[c][id]) THEN FactoryDeps(nodes[c][id].fac) ELSE {}]
\* id lies on a cycle of two or more factories of c's graph
OnTransitiveCycle(c, id) ==
  /\ id \notin Requires(c)[id]
  /\ id \in Reach(Requires(c), {id}, {})

\* C9: registering a factory that closes a transitive cycle is accepted, and
\* a get(A) for an A on such a cycle fails with CircularDependencyException
\* without invoking any factory.
C9_TransitiveCycleDetectedAtGet ==
  /\ (/\ last.op = "register_factory" /\ last.id \notin last.deps
      /\ BoundOpen(last.r) = {})
       => last.out = "ok"
  /\ (IsGet /\ ~closed[last.c] /\ OnTransitiveCycle(last.c, last.id))
       => (last.out = "Circular" /\ last.calls = <<>>)

\* neither c nor any ancestor of c has a node or an instance for id
Unknown(c, id) ==
  \A x \in {c} \cup Ancestors(c) :
    nodes[x][id].kind = "absent" /\ id \notin DictKeys(instances[x])

\* C10 (as stated): get(T) on an open container fails with
\* DependencyNotSatisfiableException, invoking no factory, when neither the
\* container nor any ancestor has a node or instance for T.
C10_Original ==
  (IsGet /\ ~closed[last.c] /\ Unknown(last.c, last.id))
    => (last.out = "NotSat" /\ last.calls = <<>>)

\* C10 (amended): get(T) on an open container, when neither the container nor
\* any ancestor has a node or instance for T, invokes no factory and fails:
\* with DependencyNotSatisfiableException when every ancestor is open, with
\* ContainerClosedException when some ancestor is closed.
C10_UnknownDependencyFails ==
  (IsGet /\ ~closed[last.c] /\ Unknown(last.c, last.id))
    => /\ last.calls = <<>>
       /\ last.out = (IF ChainOpen(last.c) THEN "NotSat" ELSE "ContainerClosed")
       /\ last.id \notin DictKeys(instances[last.c])

\* C10 witness: a get of an unknown T on an open child container that walked
\* the whole open parent chain and failed with DependencyNotSatisfiableException.
C10_Witness ==
  /\ IsGet /\ HasParent(last.c) /\ ChainOpen(last.c)
  /\ Unknown(last.c, last.id)
  /\ last.out = "NotSat"

IsResolve == last.op = "resolve"
\* the last factory invocation of the last call
FinalCall == last.calls[Len(last.calls)]

\* C11: resolving "If[T] | None" yields None, invoking no factory, when T is
\* registered nowhere on the container chain; resolving "Try[T] | None" yields
\* None when T's factory was invoked and threw, and the value the factory
\* returned when the construction succeeded.
C11_OptionalFallsBackToNone ==
  IsResolve =>
    /\ (last.e = OptIf(last.id) /\ ~Contains(instances, last.c, last.id))
         => (last.out = "ok" /\ last.val = NoneVal /\ last.calls = <<>>)
    /\ (last.e = OptTry(last.id) /\ last.calls # <<>> /\ FinalCall.id = last.id)
         => /\ last.out = "ok"
            /\ last.val = (IF FinalCall.v = Absent THEN NoneVal ELSE FinalCall.v)

\* C11 witness: on a child container, "Try[T] | None" came out None after the
\* factory registered for T in the parent was invoked and threw.
C11_Witness ==
  /\ IsResolve /\ HasParent(last.c)
  /\ last.e = OptTry(last.id) /\ last.calls # <<>>
  /\ FinalCall.id = last.id /\ FinalCall.v = Absent /\ FinalCall.c = parent[last.c]
  /\ last.out = "ok" /\ last.val = NoneVal

\* the positions in a call record's invocation log of the factories for id
CallsOf(rec, id) == {i \in 1..Len(rec.calls) : rec.calls[i].id = id}
\* the condition did not succeed on container c: for If the id is not in the
\* container chain; for Try the id's factory threw, or the id is unknown, or
\* a closed container was reached
FirstFailed(rec, c, cond) ==
  IF cond.kind = "If" THEN ~Contains(instances, c, cond.id)
  ELSE \/ \E i \in CallsOf(rec, cond.id) : rec.calls[i].v = Absent
       \/ ~Contains(instances, c, cond.id)
       \/ ~ChainOpen(c)

\* C12: an expression with two conditions that is not answered from the cache
\* tries its conditions in declared order: every factory run for the first
\* condition runs before any run for the second; when the first condition's
\* factory returns a value, or the container already stores a value for it,
\* that value is the result and no factory of the second condition is
\* invoked; the second condition's factory is invoked only after the first
\* condition failed, and then its value is the result.
C12_FirstSuccessfulConditionWins ==
  [][(last'.op = "resolve" /\ Len(last'.e.order) = 2
        /\ last'.e \notin CacheKeys(expression_cache[last'.c]))
      => LET c == last'.c
             c1 == last'.e.order[1]
             c2 == last'.e.order[2]
             own == DictValue(instances[c], c1.id)
         IN /\ \A i \in CallsOf(last', c1.id), j \in CallsOf(last', c2.id) : i < j
            /\ \A i \in CallsOf(last', c1.id) :
                 last'.calls[i].v # Absent
                   => /\ last'.out = "ok" /\ last'.val = last'.calls[i].v
                      /\ CallsOf(last', c2.id) = {}
            /\ (~closed[c] /\ own \notin {Absent, NoneVal})
                 => (last'.out = "ok" /\ last'.val = own /\ last'.calls = <<>>)
            /\ CallsOf(last', c2.id) # {} => FirstFailed(last', c, c1)
            /\ \A j \in CallsOf(last', c2.id) :
                 last'.calls[j].v # Absent => (last'.out = "ok" /\ last'.val = last'.calls[j].v)
    ]_vars

\* C12 witness: "Try[A] | If[B] | None" resolved on a container where A's
\* factory was invoked first and threw, and B's factory was invoked second and
\* returned the result.
C12_Witness ==
  /\ IsResolve /\ last.e = Either(FALSE, "Try", "A", "If", "B")
  /\ Len(last.calls) = 2
  /\ last.calls[1].id = "A" /\ last.calls[1].v = Absent
  /\ last.calls[2].id = "B" /\ last.calls[2].v = last.val
  /\ last.out = "ok" /\ last.val # NoneVal

\* the containers on the chain that starts at c (c itself and its ancestors)
Chain(c) == IF c = NoContainer THEN {} ELSE {c} \cup Ancestors(c)
\* the containers on the ambient chain of task t that carry the label ctx
OnAmbientChain(t, ctx) == {x \in Chain(ambient[t]) : tag[x] = ctx}
\* this step is an enter_context call of task t that yielded
EnterStep(t) == last'.op = "enter" /\ last'.t = t /\ Len(scopes'[t]) = Len(scopes[t]) + 1
\* this step leaves the innermost scope of task t
ExitStep(t) == Len(scopes'[t]) = Len(scopes[t]) - 1
InnermostFrame(t) == scopes[t][Len(scopes[t])]

\* C13: entering a context whose label is carried by a container on the
\* task's ambient chain yields that very container and creates no container;
\* leaving that inner scope closes no container and runs no teardown.
C13_ReentryReusesChainContainer ==
  [][\A t \in Tasks :
       /\ (EnterStep(t) /\ OnAmbientChain(t, last'.ctx) # {})
            => /\ last'.c \in OnAmbientChain(t, last'.ctx)
               /\ created' = created
               /\ closed' = closed
       /\ (ExitStep(t) /\ InnermostFrame(t).c \in Chain(InnermostFrame(t).token))
            => /\ closed' = closed
               /\ last'.op = "exit" /\ last'.tds = <<>>
               /\ active_containers' = active_containers
    ]_vars

\* C13 witness: a task inside ROOT > REQUEST re-entered ROOT and has left that
\* inner scope again; the root container, which stores an instance that has a
\* teardown, is still open.
C13_Witness ==
  /\ last.op = "exit" /\ last.t \in Tasks
  /\ ambient[last.t] # NoContainer
  /\ last.c \in Ancestors(ambient[last.t])
  /\ tag[last.c] = ROOT /\ tag[ambient[last.t]] = REQUEST
  /\ ~closed[last.c]
  /\ teardowns(last.c, instances[last.c], 1) # <<>>

\* C14: while the manager has a root container, every enter_context(ROOT), of
\* any task and whatever its ambient chain, yields that container and leaves
\* it the manager's root container.
C14_RootContainerShared ==
  [][\A t \in Tasks :
       (EnterStep(t) /\ last'.ctx = ROOT /\ default_container # NoContainer)
         => /\ last'.c = default_container
            /\ default_container' = default_container
            /\ created' = created
    ]_vars

\* this step is a manager.close() that found a root container
ManagerCloseStep == default_container # NoContainer /\ last'.op = "close" /\ last'.c = default_container
               /\ \A t \in Tasks : scopes'[t] = scopes[t]

\* C15: leaving a scope, ROOT or nested, never closes the manager's root
\* container nor runs its teardowns; manager.close() closes it and leaves the
\* manager without a root container; and an enter_context(ROOT) made while
\* the manager has no root container creates a new container.
C15_OnlyManagerCloseClosesRoot ==
  [][/\ \A t \in Tasks :
          ExitStep(t) => /\ default_container' = default_container
                         /\ \A c \in Containers :
                              tag[c] = ROOT => (closed'[c] = closed[c] /\ ~(last'.op = "close" /\ last'.c = c))
     /\ (ManagerCloseStep /\ last'.out = "ok")
          => (closed'[default_container] /\ default_container' = NoContainer)
     /\ \A t \in Tasks :
          (EnterStep(t) /\ last'.ctx = ROOT /\ default_container = NoContainer)
            => (last'.how = "created" /\ ~created[last'.c] /\ default_container' = last'.c)
    ]_vars

IsCall == last.op = "call"
CalledFn == IF last.fn = "fn" THEN plain_fn ELSE method_fn
\* a method's first parameter is the implicit self, which the caller does not pass
ImplicitSelf(fn) == IF fn = method_fn THEN 1 ELSE 0
\* the parameters the caller of the last call supplied positionally, by position
SuppliedAt(j) == CalledFn.pos[j + ImplicitSelf(CalledFn)].name
PassedPositions == {j \in 1..last.nargs : j + ImplicitSelf(CalledFn) <= Len(CalledFn.pos)}
Supplied == {SuppliedAt(j) : j \in PassedPositions} \cup last.kw
\* the parameters injection may fill: annotated, with INJECTED as default
Eligible(fn) ==
  {fn.pos[i].name : i \in {j \in 1..Len(fn.pos) : fn.pos[j].dep # CANNOT_INJECT}}
    \cup {fn.kw[i].name : i \in {j \in 1..Len(fn.kw) : fn.kw[j].dep # CANNOT_INJECT}}

\* C16: a call of an injected plain function or bound method resolves only
\* eligible parameters the caller did not supply, positionally (not counting
\* the implicit self) or by keyword; when the wrapped callable is invoked it
\* receives every supplied argument as the caller passed it and an injected
\* value for exactly the eligible parameters that were missing.
C16_SuppliedArgumentsKept ==
  IsCall =>
    /\ last.inj \subseteq (Eligible(CalledFn) \ Supplied)
    /\ last.invoked =>
         /\ last.inj = Eligible(CalledFn) \ Supplied
         /\ \A j \in PassedPositions : DictValue(last.got, SuppliedAt(j)) = ArgVal(j)
         /\ \A n \in last.kw : DictValue(last.got, n) = KwVal(n)
         /\ CalledFn = method_fn => DictValue(last.got, "self") = SelfVal

\* C17: a call of an injected callable made while the task has no ambient
\* container, with an eligible parameter the caller did not supply, fails with
\* DependencyNotSatisfiableException; no factory runs and the wrapped callable
\* is not invoked.
C17_NoContextFails ==
  (IsCall /\ last.c = NoContainer /\ Eligible(CalledFn) \ Supplied # {})
    => /\ last.out = "NotSat"
       /\ ~last.invoked
       /\ last.calls = <<>>
       /\ last.got = <<>>

\* C17 witness: after the task has left its ROOT scope, with no ambient
\* container again, a call that supplies x and b but not a failed with
\* DependencyNotSatisfiableException although the root container provides A.
C17_Witness ==
  /\ IsCall /\ last.c = NoContainer
  /\ last.nargs = 1 /\ last.kw = {"b"}
  /\ last.out = "NotSat" /\ ~last.invoked
  /\ default_container # NoContainer
  /\ HasData(nodes[default_container]["A"])

\* C18: with injection globally disabled every enter_context yields the one
\* no-op container; get on it fails with DependencyNotSatisfiableException;
\* add_value and add_factory on it succeed and store nothing; the manager
\* creates no container, has no root container, sets no ambient container,
\* and none of its registries is frozen, so registration keeps succeeding.
C18_DisabledYieldsNoOp ==
  ~di_enabled =>
    /\ \A t \in Tasks : \A i \in 1..Len(scopes[t]) : scopes[t][i].c = NoOpContainer
    /\ last.op = "enter" => last.c = NoOpContainer
    /\ last.op = "noop_get" => last.out = "NotSat"
    /\ last.op \in {"noop_add_value", "noop_add_factory"} => last.out = "ok"
    /\ noop = {}
    /\ \A c \in Containers : ~created[c]
    /\ default_container = NoContainer
    /\ \A t \in Tasks : ambient[t] = NoContainer
    /\ \A r \in Registries : active_containers[r] = {}
    /\ IsRegister => last.out = "ok"

\* C18 witness: with injection disabled, a registration on the ROOT registry
\* succeeded while a scope that yielded the no-op container was open, after an
\* add and a failed get on the no-op container.
C18_Witness ==
  /\ ~di_enabled
  /\ IsRegister /\ last.r = "R1" /\ last.out = "ok"
  /\ \E t \in Tasks : scopes[t] # <<>> /\ scopes[t][1].c = NoOpContainer
  /\ nadds > 0 /\ ngets > 0

\* the containers below c: children, grandchildren, ...
Descendants(c) == {x \in Containers : created[x] /\ c \in Ancestors(x)}
IsAdd == last.op \in {"add_value", "add_factory"}
\* what get(id) on container x answers: outcome and value
Answer(x, id) == [out |-> WouldGet(x, id).out, val |-> WouldGet(x, id).val]

\* C19: add_value / add_factory on a container changes neither a registry nor
\* the graph or the instances of any other container, and leaves what get
\* answers for every dependency unchanged on every container that is neither
\* that container nor one of its descendants (parent, siblings, other roots);
\* a container constructed afterwards takes its graph from the registry alone.
C19_AdditionsAreLocal ==
  [][/\ IsAdd' =>
          /\ reg_nodes' = reg_nodes /\ reg_adj' = reg_adj
          /\ \A x \in Containers \ {last'.c} :
               /\ nodes'[x] = nodes[x] /\ adj'[x] = adj[x] /\ instances'[x] = instances[x]
               /\ (created[x] /\ x \notin Descendants(last'.c))
                    => \A id \in UserIds : Answer(x, id)' = Answer(x, id)
     /\ last'.op = "new" =>
          /\ \A id \in UserIds : nodes'[last'.c][id] = reg_nodes[last'.r][id]
          /\ DictKeys(instances'[last'.c]) = {ContainerId}
    ]_vars

\* C19 witness: a value was added for T to a child container that has a
\* sibling; the child answers get(T) with it, while the parent and the sibling
\* fail get(T) and the registry has no node for T.
C19_Witness ==
  /\ last.op = "add_value" /\ HasParent(last.c)
  /\ \E x \in Containers \ {last.c} :
       /\ created[x] /\ parent[x] = parent[last.c]
       /\ Answer(x, last.id).out = "NotSat"
  /\ Answer(parent[last.c], last.id).out = "NotSat"
  /\ Answer(last.c, last.id) = [out |-> "ok", val |-> last.val]
  /\ \A r \in Registries : ~HasData(reg_nodes[r][last.id])

\* C20: after add_value or add_factory has returned on a container, the
\* expression cache of that container and of every open descendant (children,
\* grandchildren, ...) is empty.
C20_AdditionClearsCaches ==
  (IsAdd /\ last.out = "ok")
    => \A x \in {last.c} \cup Descendants(last.c) :
         ~closed[x] => expression_cache[x] = {}

\* a step of get, add_value or add_factory on a container
IsContainerCall(rec) == rec.op \in {"get", "add_value", "add_factory"}

\* C21: across get, add_value and add_factory calls on a container, an entry
\* of its instances map for a dependency id, once present, is never replaced
\* by a different value.
C21_InstancesAppendOnly ==
  [][IsContainerCall(last') =>
       \A c \in Containers, id \in Ids :
         id \in DictKeys(instances[c]) => DictValue(instances'[c], id) = DictValue(instances[c], id)]_vars

\* the container whose graph holds the node for id, seen from c: c itself or
\* its nearest ancestor
RECURSIVE Owner(_, _)
Owner(c, id) ==
  IF c = NoContainer THEN NoContainer
  ELSE IF HasData(nodes[c][id]) THEN c
  ELSE Owner(parent[c], id)

\* the containers from c up to, and without, its ancestor p
RECURSIVE Below(_, _)
Below(c, p) == IF c = NoContainer \/ c = p THEN {} ELSE {c} \cup Below(parent[c], p)

\* C22 (storage): a successful get(T) on C that is not answered from C's
\* expression cache and is satisfied by an ancestor P leaves the instance in
\* P's instances and in no container between C and P.
C22_StoredInOwnerOnly ==
  \A c \in Containers, id \in UserIds :
    (/\ last'.op = "get" /\ last'.c = c /\ last'.id = id /\ last'.out = "ok"
     /\ Req(id) \notin CacheKeys(expression_cache[c])
     /\ Owner(c, id) # c)
      => /\ DictValue(instances'[Owner(c, id)], id) = last'.val
         /\ \A x \in Below(c, Owner(c, id)) : id \notin DictKeys(instances'[x])

\* C22 (close): closing C runs no teardown for a dependency whose node C's
\* graph does not hold, and leaves every other container's instances as they are.
C22_CloseLeavesOwner ==
  \A c \in Containers :
    (last'.op = "close" /\ last'.c = c)
      => /\ \A i \in 1..Len(last'.tds) : HasData(nodes[c][last'.tds[i].id])
         /\ \A x \in Containers \ {c} : instances'[x] = instances[x]
         /\ instances'[c] = instances[c]

\* C22 (sharing): a container created under P, whatever was closed before,
\* would be answered get(T) with the instance the owner on P's chain holds,
\* without a factory call; and a get that delegates to an owner holding an
\* instance returns that instance without a factory call.
C22_SameInstance ==
  \A c \in Containers, id \in UserIds :
    LET o == Owner(parent'[c], id)
        v == DictValue(instances[o], id)
    IN (/\ last'.op \in {"new", "get"} /\ last'.c = c /\ last'.id \in {id, ""}
        /\ parent'[c] # NoContainer /\ ~HasData(nodes'[c][id])
        /\ o # NoContainer /\ v \notin {Absent, NoneVal}
        /\ Req(id) \notin CacheKeys(expression_cache[c])
        /\ ~closed[c] /\ \A x \in Below(parent'[c], parent[o]) : ~closed[x])
       => /\ (WouldGet(c, id))'.out = "ok"
          /\ (WouldGet(c, id))'.val = v
          /\ (WouldGet(c, id))'.calls = <<>>
          /\ last'.op = "get" => (last'.out = "ok" /\ last'.val = v /\ last'.calls = <<>>)

\* C22: an instance is owned by the container whose graph holds its node: a
\* get(T) on C satisfied by delegation to an ancestor P stores the instance in
\* P only, closing C does not run T's teardown, and a container created under
\* P after C has closed receives the same instance.
C22_InstanceOwnedByProvider ==
  [][C22_StoredInOwnerOnly /\ C22_CloseLeavesOwner /\ C22_SameInstance]_vars

\* C22 witness: C got T from its parent P by delegation and was closed without
\* a teardown of T; a container has just been created under P and would
\* receive the same instance, which P still holds.
C22_Witness ==
  /\ last.op = "new" /\ parent[last.c] # NoContainer
  /\ \E c \in Containers \ {last.c} :
       /\ closed[c] /\ parent[c] = parent[last.c] /\ ~HasData(nodes[c]["A"])
       /\ Req("A") \in CacheKeys(expression_cache[c])
       /\ CacheValue(expression_cache[c], Req("A")) = DictValue(instances[parent[c]], "A")
       /\ "A" \notin DictKeys(instances[c])
       /\ nodes[parent[c]]["A"].td # NoTd
       /\ WouldGet(last.c, "A").val = CacheValue(expression_cache[c], Req("A"))
       /\ WouldGet(last.c, "A").val.k = "obj"

\* the wrapper of contextual(ROOT, REQUEST) has just entered both contexts
Entered == last.op = "enter" /\ last.fn = "contextual" /\ last.ctx = ContextualContexts[2]
\* the frames of the wrapper's two enter_context calls and the container that
\* was ambient when the decorated function was called
FirstFrame == scopes[last.t][Len(scopes[last.t]) - 1]
SecondFrame == scopes[last.t][Len(scopes[last.t])]
OuterAmbient == FirstFrame.token

\* C23: when a function decorated with contextual(ROOT, REQUEST) is called
\* while a REQUEST scope is active, ROOT is entered first and REQUEST second,
\* REQUEST is entered with a fresh container from which the outer REQUEST
\* container and its instances cannot be reached, and the wrapper's exit
\* closes the fresh container only and resets the ambient container to the
\* outer REQUEST container.
C23_ContextualReentersRequest ==
  (Entered /\ OuterAmbient # NoContainer /\ tag[OuterAmbient] = REQUEST)
    => /\ tag[FirstFrame.c] = ROOT /\ tag[SecondFrame.c] = REQUEST
       /\ SecondFrame.token = FirstFrame.c
       /\ last.how = "created" /\ SecondFrame.c = last.c
       /\ SecondFrame.c # OuterAmbient
       /\ OuterAmbient \notin Ancestors(SecondFrame.c)
       /\ DictKeys(instances[SecondFrame.c]) = {ContainerId}
       /\ SecondFrame.own /\ ~FirstFrame.own
       /\ ambient[last.t] = SecondFrame.c

\* C24: every container created for a non-root context has a root container
\* (a container of the ROOT context) as its parent or further up its parent
\* chain, in whatever order the scopes were entered.
C24_NonRootUnderRoot ==
  \A c \in Containers :
    (created[c] /\ tag[c] \in Tags \ {ROOT}) => \E a \in Ancestors(c) : tag[a] = ROOT

\* the container that is ambient in task t while its k-th open scope is the
\* innermost one (k = 0: no scope of the task is open)
AmbientIn(t, k) == IF k = 0 THEN NoContainer ELSE scopes[t][k].c

\* C25: every enter_context call, nested or re-entering an existing scope,
\* is made with the enclosing scope's container ambient and leaves the
\* enclosing scopes as they are; when the scope exits, normally or because
\* its body raised, the ambient container is again the one that was ambient
\* immediately before the scope was entered; and no step of another task or
\* outside enter/exit changes a task's ambient container.
C25_AmbientRestoredOnExit ==
  [][\A t \in Tasks :
       /\ EnterStep(t)
            => /\ ambient[t] = AmbientIn(t, Len(scopes[t]))
               /\ SubSeq(scopes'[t], 1, Len(scopes[t])) = scopes[t]
               /\ ambient'[t] = last'.c
               /\ InnermostFrame(t)'.c = last'.c
       /\ ExitStep(t)
            => /\ ambient'[t] = AmbientIn(t, Len(scopes[t]) - 1)
               /\ scopes'[t] = SubSeq(scopes[t], 1, Len(scopes[t]) - 1)
       /\ scopes'[t] = scopes[t] => ambient'[t] = ambient[t]
    ]_vars

\* C25 witness: a task has just left a scope that re-entered an existing
\* context from inside a nested scope, and its ambient container is again the
\* nested scope's container, not the one the scope it left had yielded.
C25_Witness ==
  /\ last.op = "exit" /\ scopes[last.t] # <<>>
  /\ ambient[last.t] = InnermostFrame(last.t).c
  /\ ambient[last.t] # last.c
  /\ last.c \in Ancestors(ambient[last.t])

\* the containers created by the scopes task t has open
OwnContainers(t) == {scopes[t][i].c : i \in {j \in 1..Len(scopes[t]) : scopes[t][j].own}}

\* C26 (entering): a task whose ambient container is the shared root and that
\* enters a non-root label gets a newly created container with the root as
\* parent, which no other task has entered or can reach.
C26_DistinctContainers ==
  \A t \in Tasks : \A u \in Tasks \ {t} :
    (EnterStep(t) /\ last'.ctx # ROOT /\ ambient[t] = default_container)
      => /\ last'.how = "created" /\ ~created[last'.c]
         /\ parent'[last'.c] = default_container
         /\ last'.c \notin Chain(ambient[u])
         /\ last'.c \notin OwnContainers(u)

\* C26 (isolation): a value a task added to a container of its own scope (the
\* only containers a task adds its value to) is never what another task's
\* ambient container resolves, while the scope is open and after it was left.
C26_AddedValueNotShared ==
  \A t \in Tasks : \A u \in Tasks \ {t} : \A id \in UserIds :
    (/\ \E c \in Containers : DictValue(instances[c], id) = UserVal(t)
     /\ ambient[u] # NoContainer)
      => WouldGet(ambient[u], id).val # UserVal(t)

\* C26 (closing): a container created for a non-root label is closed by the
\* exit of the scope that created it, in the task that entered it, and is
\* never closed a second time.
C26_ClosedOnceByOwner ==
  /\ \A c \in Containers :
       (created[c] /\ tag[c] # ROOT /\ last'.op = "close" /\ last'.c = c)
         => /\ ~closed[c] /\ closed'[c]
            /\ \E t \in Tasks :
                 /\ ExitStep(t) /\ InnermostFrame(t).c = c /\ InnermostFrame(t).own
                 /\ \A u \in Tasks \ {t} : c \notin OwnContainers(u)
  /\ \A t \in Tasks :
       (ExitStep(t) /\ InnermostFrame(t).own)
         => (last'.op = "close" /\ last'.c = InnermostFrame(t).c /\ closed'[last'.c])

\* C26 (ambient): one task's enter or exit changes neither the ambient
\* container nor the open scopes of another task.
C26_AmbientNotShared ==
  \A t \in Tasks : \A u \in Tasks \ {t} :
    (EnterStep(t) \/ ExitStep(t)) => (ambient'[u] = ambient[u] /\ scopes'[u] = scopes[u])

\* C26: two concurrent tasks spawned from the same ROOT scope that each enter
\* the same non-root label get distinct containers with the shared root as
\* parent; a value one task adds to its own container is never resolvable from
\* the other task; each container is closed exactly once, by its own task;
\* and neither task's ambient container is changed by the other's enter or exit.
C26_TasksIsolated ==
  [][/\ C26_DistinctContainers
     /\ C26_AddedValueNotShared'
     /\ C26_ClosedOnceByOwner
     /\ C26_AmbientNotShared]_vars

\* C26 witness: both tasks are inside a REQUEST scope with containers of
\* their own under the shared root; one has added a value for B to its
\* container and resolves it, the other fails to resolve B.
C26_Witness ==
  \E t \in Tasks : \E u \in Tasks \ {t} :
    /\ InOwnScope(t) /\ InOwnScope(u)
    /\ tag[ambient[t]] = REQUEST /\ tag[ambient[u]] = REQUEST
    /\ ambient[t] # ambient[u]
    /\ parent[ambient[t]] = default_container /\ parent[ambient[u]] = default_container
    /\ DictValue(instances[ambient[t]], "B") = UserVal(t)
    /\ Answer(ambient[t], "B") = [out |-> "ok", val |-> UserVal(t)]
    /\ Answer(ambient[u], "B").out = "NotSat"

\* this step resumes the parked get of task t
ResumeStep(t) == pending[t] # NoPending /\ pending'[t] = NoPending /\ last'.out # "Cancelled"
\* the container in which the factory of the dependency a parked get asked for runs
ParkedOwner(p) == p.calls[Len(p.calls)].c
\* every object a factory has returned so far
AllConstructed == UNION {{constructed[c][i].v : i \in 1..Len(constructed[c])} : c \in Containers}

\* C27: construction is not at-most-once under concurrency: a get(T) that was
\* suspended in T's factory stores and returns the object of its own factory
\* call when it resumes, whatever another task has stored for T in the
\* meantime, so that the later result replaces the earlier one in instances
\* and the callers hold different instances.
C27_ResumedGetOverwrites ==
  [][\A t \in Tasks :
       (ResumeStep(t) /\ last'.out = "ok")
         => /\ last'.calls # <<>>
            /\ last'.val \notin AllConstructed
            /\ last'.val # DictValue(instances[ParkedOwner(pending[t])], pending[t].id)
            /\ DictValue(instances'[ParkedOwner(pending[t])], pending[t].id) = last'.val
    ]_vars

\* C27 witness: two tasks called get(A) on the same container while A's
\* async factory was suspended; the factory ran twice, the second object
\* replaced the first in instances and was returned to the second caller,
\* the first caller having received the first object.
C27_Witness ==
  /\ last.op = "get" /\ last.out = "ok" /\ last.id = "A" /\ nadds = 0 /\ ngets = 2
  /\ \A t \in Tasks : pending[t] = NoPending
  /\ \E c \in Containers :
       /\ Len(constructed[c]) = 2
       /\ constructed[c][1].id = "A" /\ constructed[c][2].id = "A"
       /\ Suspends(constructed[c][1].f) /\ Suspends(constructed[c][2].f)
       /\ constructed[c][1].v # constructed[c][2].v
       /\ DictValue(instances[c], "A") = constructed[c][2].v
       /\ last.val = constructed[c][2].v

\* the step in which a parked get of task t ends with CancelledError
CancelStep(t) == pending[t] # NoPending /\ pending'[t] = NoPending /\ last'.out = "Cancelled"

\* the values Container.close would hand to teardown functions
TeardownValues(c, d) == {teardowns(c, d, 1)[k].v : k \in 1..Len(teardowns(c, d, 1))}

\* C28: when a get is cancelled while it awaits the factory of T or the
\* factory of a dependency T's factory requires, nothing is added to any
\* container's instances and the entries that were there keep their values,
\* no expression-cache entry is written, and close hands to teardown functions
\* exactly what it would have handed before, never an object of the
\* cancelled call.
C28_CancelLeavesNoTrace ==
  [][/\ \A t \in Tasks :
          CancelStep(t)
            => /\ \A c \in Containers :
                    /\ DictKeys(instances'[c]) = DictKeys(instances[c])
                    /\ \A id \in DictKeys(instances[c]) :
                         DictValue(instances'[c], id) = DictValue(instances[c], id)
                    /\ CacheKeys(expression_cache'[c]) = CacheKeys(expression_cache[c])
                    /\ TeardownValues(c, instances'[c]) = TeardownValues(c, instances[c])
     /\ last'.op = "close"
          => \A k \in 1..Len(last'.tds) :
               last'.tds[k].v \in AllConstructed \cup {UserVal(2)}
    ]_vars

\* get(A) was cancelled in A's async factory, which has a teardown, while B's
\* object was already stored: A has no instance and no cache entry, B's entry
\* is still the object B's factory returned
C28_Witness ==
  /\ last.op = "get" /\ last.out = "Cancelled" /\ last.id = "A"
  /\ Suspends(nodes[last.c]["A"].fac.name)
  /\ nodes[last.c]["A"].td # NoTd
  /\ "A" \notin DictKeys(instances[last.c])
  /\ Req("A") \notin CacheKeys(expression_cache[last.c])
  /\ DictValue(instances[last.c], "B") \in AllConstructed
  /\ TeardownValues(last.c, instances[last.c]) = {DictValue(instances[last.c], "B")}

\* the call recorded in rec is a get(T) in which T's own factory was invoked
\* and raised
FactoryRaised(rec) ==
  /\ rec.op = "get" /\ rec.id \in UserIds
  /\ rec.calls # <<>>
  /\ rec.calls[Len(rec.calls)].id = rec.id
  /\ rec.calls[Len(rec.calls)].v = Absent

\* C29: a get(T) in which T's factory raises fails with
\* DependencyNotSatisfiableException whose cause is the factory's exception; the
\* container holding T's factory has the same entry for T in instances as
\* before, which is no instance, the expression cache has no entry for T, and
\* a get(T) made next invokes the same factory again.
C29_FactoryFailureNotMemoized ==
  [][\A c \in Containers, id \in UserIds :
       (FactoryRaised(last') /\ last'.c = c /\ last'.id = id)
         => LET o == last'.calls[Len(last'.calls)].c
            IN /\ last'.out = "NotSat"
               /\ WouldGet(c, id).cause = FactoryError
               /\ instances'[o] = instances[o]
               /\ DictValue(instances'[o], id) \in {Absent, NoneVal}
               /\ Req(id) \notin CacheKeys(expression_cache'[c])
               /\ WouldGet(c, id)'.calls = last'.calls
               /\ WouldGet(c, id)'.out = "NotSat"
    ]_vars

\* the second of two get(A) calls on a container whose only registration is a
\* raising factory for A: the factory was invoked again and A is still
\* neither in instances nor in the expression cache
C29_Witness ==
  /\ FactoryRaised(last) /\ last.id = "A" /\ last.out = "NotSat"
  /\ ngets = 2 /\ nadds = 0 /\ nregs = 1
  /\ "A" \notin DictKeys(instances[last.c])
  /\ Req("A") \notin CacheKeys(expression_cache[last.c])
  /\ Len(last.calls) = 1 /\ last.calls[1].f = fRaise.name

\* C30: on one container that nobody adds values or factories to, the factory
\* of a dependency returns a value at most once, through whichever of get and
\* the expressions T, "T | None" and Try[T] the dependency is resolved and
\* whatever the factory returned.
C30_FactoryInvokedAtMostOnce ==
  nadds = 0
    => \A c \in Containers : \A i, j \in 1..Len(constructed[c]) :
         i < j => constructed[c][i].id # constructed[c][j].id

\* get(id) on c reaches the factory node of id, held by container o, and one
\* of the factory's parameters cannot be satisfied from o
ParamUnsatisfiable(c, id, o) ==
  /\ o # NoContainer /\ o = Owner(c, id)
  /\ \A x \in Below(c, o) \cup {o} : ~closed[x] /\ DictValue(instances[x], id) \in {Absent, NoneVal}
  /\ Req(id) \notin CacheKeys(expression_cache[c])
  /\ id \notin children(adj[o], id)
  /\ \E i \in 1..Len(nodes[o][id].fac.params) :
       resolve(Here, o, nodes[o][id].fac.params[i], MaxDepth).out = "NotSat"

\* C31: when a parameter of T's factory cannot be resolved because a
\* sub-dependency is unsatisfiable, get(T) fails with
\* DependencyNotSatisfiableException raised from the sub-dependency's failure,
\* T's factory is not invoked, T has no instance and no cache entry afterwards,
\* and every object built for an earlier parameter is stored and is what a
\* later get of that dependency returns without another factory call.
C31_FailedParameterStopsFactory ==
  [][\A c \in Containers, id \in UserIds, o \in Containers :
       (last'.op = "get" /\ last'.c = c /\ last'.id = id /\ ParamUnsatisfiable(c, id, o))
         => /\ last'.out = "NotSat"
            /\ WouldGet(c, id).cause = "NotSat"
            /\ \A k \in 1..Len(last'.calls) : last'.calls[k].id # id
            /\ DictValue(instances'[o], id) = Absent
            /\ Req(id) \notin CacheKeys(expression_cache'[c])
            /\ \A k \in 1..Len(last'.calls), u \in UserIds :
                 (last'.calls[k].id = u /\ last'.calls[k].v # Absent)
                   => /\ DictValue(instances'[last'.calls[k].c], u) = last'.calls[k].v
                      /\ WouldGet(o, u)'.val = last'.calls[k].v
                      /\ WouldGet(o, u)'.calls = <<>>
    ]_vars

\* get(A) failed on the second parameter of A's factory after B had been built
\* for the first: B's object is stored, A is not, A's factory was not called
C31_Witness ==
  /\ last.op = "get" /\ last.id = "A" /\ last.out = "NotSat"
  /\ Owner(last.c, "A") # NoContainer
  /\ nodes[Owner(last.c, "A")]["A"].fac = fBoth
  /\ Len(last.calls) = 1 /\ last.calls[1].id = "B" /\ last.calls[1].v # Absent
  /\ DictValue(instances[Owner(last.c, "A")], "B") = last.calls[1].v
  /\ "A" \notin DictKeys(instances[Owner(last.c, "A")])

\* the ids the parameters of a factory name, in signature order (each
\* parameter of the factories used here is a single required dependency)
ParamId(fac, i) == fac.params[i].order[1].id

\* C32: the parameters of a factory are resolved against the container whose
\* graph holds the factory: in every get, also one that was delegated upwards
\* from a descendant, each argument the factory receives is the entry that the
\* owning container or the nearest of its ancestors providing the parameter
\* holds for it, whatever the containers below the owner hold for it.
C32_ParamsFromOwner ==
  [][(last'.op = "get" /\ last'.out = "ok")
       => \A k \in 1..Len(last'.calls) : \A i \in 1..Len(last'.calls[k].args) :
            LET o == last'.calls[k].c
                u == ParamId(nodes[o][last'.calls[k].id].fac, i)
            IN /\ Owner(o, u) # NoContainer
               /\ last'.calls[k].args[i] = DictValue(instances'[Owner(o, u)], u)
    ]_vars

\* get(A) on a child that overrides B was delegated to the parent, and A's
\* factory received the parent's B, which is not the child's
C32_Witness ==
  /\ last.op = "get" /\ last.out = "ok" /\ last.id = "A"
  /\ \E k \in 1..Len(last.calls) :
       /\ last.calls[k].id = "A" /\ last.calls[k].c = parent[last.c]
       /\ Len(last.calls[k].args) = 1
       /\ HasData(nodes[last.c]["B"])
       /\ DictValue(instances[last.c], "B") \notin {Absent, NoneVal}
       /\ last.calls[k].args[1] # DictValue(instances[last.c], "B")
       /\ last.calls[k].args[1] = DictValue(instances[parent[last.c]], "B")

\* the objects the factories registered for id have returned so far
ConstructedFor(hist, id) ==
  UNION {{hist[c][i].v : i \in {j \in 1..Len(hist[c]) : hist[c][j].id = id}} : c \in Containers}

\* C33: resolving "If[A] | B" on a container that does not have it cached:
\* when A's factory is invoked and raises, the resolution fails with the
\* DependencyNotSatisfiableException raised for A (its cause is the factory's
\* exception), B's factory is not invoked, and no expression cache and no
\* instances change; and whenever A is known to the container or to one of its
\* ancestors, B's factory is not invoked and the result is not an object of B.
C33_IfFallsBackOnlyOnAbsence ==
  [][\A c \in Containers :
       (/\ last'.op = "resolve" /\ last'.c = c /\ last'.e = IfAB
        /\ IfAB \notin CacheKeys(expression_cache[c]))
         => /\ (\E k \in 1..Len(last'.calls) : last'.calls[k].id = "A" /\ last'.calls[k].v = Absent)
                 => /\ last'.out = "NotSat"
                    /\ resolve(Here, c, IfAB, MaxDepth).cause = FactoryError
                    /\ \A k \in 1..Len(last'.calls) : last'.calls[k].id # "B"
                    /\ expression_cache' = expression_cache
                    /\ instances' = instances
            /\ Contains(instances, c, "A")
                 => /\ \A k \in 1..Len(last'.calls) : last'.calls[k].id # "B"
                    /\ last'.val \notin ConstructedFor(constructed', "B")
    ]_vars

\* "If[A] | B" failed on a container that knows A, whose factory raised, and
\* B, whose factory was not called
C33_Witness ==
  /\ last.op = "resolve" /\ last.e = IfAB /\ last.out = "NotSat"
  /\ Len(last.calls) = 1 /\ last.calls[1].id = "A" /\ last.calls[1].f = fRaise.name
  /\ Contains(instances, last.c, "B")
  /\ WouldGet(last.c, "B").out = "ok"
  /\ IfAB \notin CacheKeys(expression_cache[last.c])

\* close() of c gets as far as its teardown loop: c is a root container or
\* its change listener is still registered with its parent
ReachesTeardowns(c) == parent[c] = NoContainer \/ c \in on_change_listeners[parent[c]]

\* C34: when a teardown function raises during close() of a container that
\* no earlier close() has closed, close() ends with that exception, the
\* teardowns of the instances after it in the iteration are not called, and
\* the container is left not closed and still in the active containers of its
\* registry.
C34_RaisingTeardownAbortsClose ==
  [][\A c \in Containers :
       (/\ last'.op = "close" /\ last'.c = c /\ ReachesTeardowns(c) /\ ~closed[c]
        /\ \E k \in 1..Len(teardowns(c, instances[c], 1)) :
             TeardownRaises(teardowns(c, instances[c], 1)[k].td))
         => /\ last'.out = "TeardownError"
            /\ \E k \in 1..Len(teardowns(c, instances[c], 1)) :
                 /\ TeardownRaises(teardowns(c, instances[c], 1)[k].td)
                 /\ last'.tds = SubSeq(teardowns(c, instances[c], 1), 1, k)
                 /\ \A j \in 1..(k - 1) : ~TeardownRaises(last'.tds[j].td)
            /\ ~closed'[c]
            /\ c \in active_containers'[registry[c]]
            /\ instances' = instances
    ]_vars

\* close() ended with the exception of A's teardown; B was instantiated after
\* A and has a teardown, which was not called; the container is open and its
\* registry frozen
C34_Witness ==
  /\ last.op = "close" /\ last.out = "TeardownError"
  /\ Len(last.tds) = 1 /\ last.tds[1].id = "A"
  /\ Len(teardowns(last.c, instances[last.c], 1)) = 2
  /\ teardowns(last.c, instances[last.c], 1)[2].id = "B"
  /\ ~TeardownRaises(teardowns(last.c, instances[last.c], 1)[2].td)
  /\ ~closed[last.c]
  /\ last.c \in active_containers[registry[last.c]]

\* C35: the get(T) that follows a successful add_factory(T, f) on the same
\* open container returns, when it returns, an object that f built in that
\* call; and each teardown call close makes for an object a factory of the
\* container built uses the teardown registered with that factory.
C35_AddFactoryTakesEffect ==
  [][/\ (/\ last.op = "add_factory" /\ last.out = "ok"
         /\ last'.op = "get" /\ last'.c = last.c /\ last'.id = last.id /\ last'.out = "ok")
          => /\ last'.calls # <<>>
             /\ last'.calls[Len(last'.calls)].f = last.f
             /\ last'.calls[Len(last'.calls)].v = last'.val
     /\ last'.op = "close"
          => \A k \in 1..Len(last'.tds) : \A i \in 1..Len(constructed[last'.c]) :
               constructed[last'.c][i].v = last'.tds[k].v
                 => constructed[last'.c][i].td = last'.tds[k].td
    ]_vars

\* C36: a container created for the ROOT context has no parent, in whatever
\* order scopes are entered.
C36_RootHasNoParent ==
  \A c \in Containers : (created[c] /\ tag[c] = ROOT) => parent[c] = NoContainer

\* C37: the container an enter_context call yields and installs as the
\* ambient container of its task is not closed.
C37_NeverYieldsClosed ==
  (last.op = "enter" /\ last.c \in Containers)
    => /\ ~closed[last.c]
       /\ closed[ambient[last.t]] = FALSE

\* C38: when the factory a get was suspended in returns after add_value(T, v)
\* has stored v for the same dependency on the same container, the entry of T
\* in that container's instances is still v and a following get(T) returns v.
C38_AddValueSurvivesResume ==
  [][\A t \in Tasks, c \in Containers, id \in UserIds :
       (/\ ResumeStep(t)
        /\ pending[t].calls[1].c = c /\ pending[t].calls[1].id = id
        /\ DictValue(instances[c], id) = UserVal(2))
         => /\ DictValue(instances'[c], id) = UserVal(2)
            /\ WouldGet(c, id)'.val = UserVal(2)
    ]_vars

\* the step in which the close() task t was suspended in ends
CloseResumeStep(t) == pending[t] # NoPending /\ pending[t].id = "close" /\ pending'[t] = NoPending

\* C39: a close() that was suspended in a teardown while other tasks resolved
\* dependencies ends without an error and has then called the teardown of
\* every instance with a teardown that the container holds; and once a
\* container is closed no factory call stores another instance in it.
C39_CloseTearsDownEverything ==
  [][/\ \A t \in Tasks :
          CloseResumeStep(t)
            => /\ last'.out = "ok"
               /\ TeardownValues(pending[t].c, instances[pending[t].c])
                    \subseteq TeardownValues(pending[t].c,
                                             SubSeq(instances[pending[t].c], 1, pending[t].pos))
                              \cup {last'.tds[k].v : k \in 1..Len(last'.tds)}
     /\ \A c \in Containers : closed[c] => constructed'[c] = constructed[c]
    ]_vars

\* C40: a register_factory call that is rejected leaves the nodes and the
\* edges of the registry's graph as they were before the call.
C40_RejectedRegistrationChangesNothing ==
  [][(last'.op = "register_factory" /\ last'.out # "ok")
       => /\ reg_nodes' = reg_nodes
          /\ reg_adj' = reg_adj
    ]_vars

====
